---- MODULE Spec2Model ----
(***************************************************************************)
(* The request-execution layer of the tpuf client (src/client.go, the      *)
(* retrying revision at lines 122-307): Client.do drives Client.doOnce     *)
(* through backoff.RetryNotifyWithTimerAndData with an exponential         *)
(* back-off wrapped in WithMaxRetries.                                     *)
(*                                                                         *)
(* One logical call is a state machine over the positions                  *)
(*   "start"      do() entered, URL not yet built                          *)
(*   "attempting" the retry loop is about to run the operation             *)
(*   "waiting"    the loop has started the Timer and blocks on its channel *)
(*   "done"       do() has returned                                        *)
(* Time is counted in seconds.  The clock of the back-off and the HTTP     *)
(* responses are inputs of the environment.                                *)
(*                                                                         *)
(* SpecCtx is the same call with a context that may be cancelled.  SpecGz  *)
(* is a call on the revision with gzip support (src/unnamed/part_001),     *)
(* where do() buffers the caller's io.Reader and doOnce compresses the     *)
(* request and decompresses the response; its state is the record gz.      *)
(*                                                                         *)
(* SpecPar is two calls running at once on one Client (record par), each   *)
(* with its own retry loop, sharing Client.Timer when it is set.  SpecFlt  *)
(* is json.Marshal applied to a filter tree (src/unnamed/part_004); its    *)
(* state is the record flt.                                                *)
(*                                                                         *)
(* SpecUps is a call of Upsert, Delete or DeleteByFilter (src/upsert.go,   *)
(* src/delete.go): the request is checked and marshalled, then posted by   *)
(* the call of Spec; its state is the record ups.  SpecLive is Spec with   *)
(* every attempt returning and the Timer delivering.                       *)
(***************************************************************************)
EXTENDS Integers, Sequences, FiniteSets, TLC

VARIABLES
    cfg,              \* the Client: MaxRetries, DisableRetry, and whether BaseURL+path parses
    pc,               \* position of the call
    attempts,         \* number of HttpClient.Do invocations made by the call
    numTries,         \* backOffTries.numTries
    currentInterval,  \* ExponentialBackOff.currentInterval
    elapsed,          \* ExponentialBackOff.GetElapsedTime() as last read
    timerStarts,      \* number of Timer.Start invocations
    timerDuration,    \* the duration handed to the last Timer.Start
    resp,             \* what the last attempt obtained from the HTTP client
    err,              \* the error the last run of the operation returned
    ret,              \* what do() returned: [bytes, err]
    stop,             \* why the loop ended
    failsHttp,        \* attempts so far that ended in a response with a retriable status
    cancelledAt,      \* -1 while ctx is live, else the value of attempts when ctx was cancelled
    once,             \* a single doOnce applied to an arbitrary response
    gz,               \* a call on the revision with gzip support (src/unnamed/part_001)
    par,              \* two calls running concurrently on one Client
    flt,              \* a filter handed to json.Marshal
    ups               \* a call of Upsert, Delete or DeleteByFilter

vars == << cfg, pc, attempts, numTries, currentInterval, elapsed, timerStarts,
           timerDuration, resp, err, ret, stop, failsHttp, cancelledAt, once,
           gz, par, flt, ups >>

callVars == << cfg, pc, attempts, numTries, currentInterval, elapsed, timerStarts,
               timerDuration, resp, err, ret, stop, failsHttp, cancelledAt >>

----------------------------------------------------------------------------
\* Bounds of the model.

\* Largest MaxRetries a Client is configured with (the smallest is -1).
MaxRetriesBound == 3

\* Cap on the attempts of one call (reached only when MaxRetries is negative).
MaxAttempts == 8

\* Range of the status codes fed to a single doOnce.
MinStatus == 100

MaxStatus == 599

----------------------------------------------------------------------------
\* Program constants.

defaultMaxRetries == 6

InitialInterval == 2

Multiplier == 2

MaxInterval == 64

\* NewExponentialBackOff is called without WithMaxElapsedTime, so the
\* library's DefaultMaxElapsedTime of 15 minutes applies.
MaxElapsedTime == 900

\* NewExponentialBackOff is called without WithRandomizationFactor, so the
\* library's DefaultRandomizationFactor of 0.5 applies (in percent).
RandomizationPercent == 50

StatusOK == 200

StatusAccepted == 202

StatusRequestTimeout == 408

StatusTooManyRequests == 429

\* Stand-in for 2^64 - 1 (TLC's integers are 32 bits wide).  The loop only
\* compares the converted limit with numTries, which never exceeds MaxAttempts.
MaxUint64 == 2147483647

ApiStatusOK == "OK"

----------------------------------------------------------------------------
\* Response bodies.  A body is one of
\*   "unreadable"  reading it fails
\*   "empty"       zero bytes: not JSON
\*   "envOK"       {"status":"OK"}
\*   "envError"    {"status":"error","error":"msg"}
\*   "rows"        a JSON object with neither a status nor an error field
Bodies == {"unreadable", "empty", "envOK", "envError", "rows"}

Readable(body) == body # "unreadable"

\* json.Unmarshal(respBody, &apiErr) succeeds
Unmarshals(body) == body \in {"envOK", "envError", "rows", "envErrorHttp"}

\* ApiError.Status after json.Unmarshal
EnvStatus(body) ==
    CASE body = "envOK" -> ApiStatusOK
      [] body \in {"envError", "envErrorHttp"} -> "error"
      [] OTHER -> ""

\* ApiError.Err after json.Unmarshal
EnvErr(body) == IF body \in {"envError", "envErrorHttp"} THEN "msg" ELSE ""

\* The number a body gives under the keys "HttpStatus" and "http_status"
\* (0: the body has no such key).  ApiError.HttpStatus is tagged json:"-".
BodyHttpStatus(body) == IF body = "envErrorHttp" THEN 200 ELSE 0

----------------------------------------------------------------------------
\* Errors.  attempt is the run of the operation that produced the value;
\* permanent says that the value is wrapped in a *backoff.PermanentError.

Nil == [kind |-> "nil", status |-> "", msg |-> "", http |-> 0, raw |-> "",
        attempt |-> 0, permanent |-> FALSE]

\* the error returned by HttpClient.Do
TransportError(n) == [Nil EXCEPT !.kind = "transport", !.attempt = n]

\* the error returned by io.ReadAll on the body of a 200 response
ReadAllError(n) == [Nil EXCEPT !.kind = "readAll", !.attempt = n]

\* the error returned by url.JoinPath / url.Parse
UrlError == [Nil EXCEPT !.kind = "url"]

\* backoff.Permanent: nil stays nil, anything else is wrapped
Permanent(e) == IF e = Nil THEN Nil ELSE [e EXCEPT !.permanent = TRUE]

\* PermanentError.Err: the wrapped error
Unwrap(e) == [e EXCEPT !.permanent = FALSE]

\* Fault of ApiError.Error(): the HTTP status left out of the message.
ErrorString_noHttp(e) == << e.status, ": ", e.msg >>

\* ApiError.Error(): fmt.Sprintf("%s: %s (HTTP %d)", ...), as the sequence
\* of the pieces it joins
ErrorString(e) == << e.status, ": ", e.msg, " (HTTP ", e.http, ")" >>

----------------------------------------------------------------------------
\* Faults of Client.maxRetries: DisableRetry not honoured; no default for 0;
\* a default of one retry less.
maxRetries_ignoresDisable(c) ==
    IF c.MaxRetries = 0 THEN defaultMaxRetries ELSE c.MaxRetries

maxRetries_noDefault(c) ==
    IF c.DisableRetry THEN 0 ELSE c.MaxRetries

maxRetries_shortDefault(c) ==
    IF c.DisableRetry THEN 0
    ELSE IF c.MaxRetries = 0 THEN defaultMaxRetries - 1
    ELSE c.MaxRetries

\* Client.maxRetries
maxRetries(c) ==
    IF c.DisableRetry THEN 0
    ELSE IF c.MaxRetries = 0 THEN defaultMaxRetries
    ELSE c.MaxRetries

\* uint64(c.maxRetries()): a negative limit wraps around
ToUint64(n) == IF n >= 0 THEN n ELSE MaxUint64 + (n + 1)

\* Fault of isRetriable: 202 Accepted forgotten.
isRetriable_no202(statusCode) ==
    \/ statusCode >= 500
    \/ statusCode = StatusRequestTimeout
    \/ statusCode = StatusTooManyRequests

isRetriable(statusCode) ==
    \/ statusCode >= 500
    \/ statusCode = StatusRequestTimeout
    \/ statusCode = StatusTooManyRequests
    \/ statusCode = StatusAccepted

\* Fault of Client.toApiError: the envelope alone decides, the status code
\* is not looked at.
toApiError_bodyDecides(statusCode, body, n) ==
    IF ~Readable(body)
    THEN [Nil EXCEPT !.kind = "readBody", !.attempt = n]
    ELSE IF ~Unmarshals(body)
    THEN [Nil EXCEPT !.kind = "decode", !.raw = body, !.http = statusCode,
                     !.attempt = n]
    ELSE IF EnvStatus(body) = ApiStatusOK
    THEN Nil
    ELSE [Nil EXCEPT !.kind = "api", !.status = EnvStatus(body),
                     !.msg = EnvErr(body), !.http = statusCode, !.attempt = n]

\* Fault of Client.toApiError: the error of json.Unmarshal is dropped and
\* the zero ApiError is returned with the status code.
toApiError_swallowsDecode(statusCode, body, n) ==
    IF ~Readable(body)
    THEN [Nil EXCEPT !.kind = "readBody", !.attempt = n]
    ELSE IF statusCode = StatusOK /\ EnvStatus(body) = ApiStatusOK
    THEN Nil
    ELSE [Nil EXCEPT !.kind = "api", !.status = EnvStatus(body),
                     !.msg = EnvErr(body), !.http = statusCode, !.attempt = n]
\* Fault of Client.toApiError: HttpStatus is decoded from the body when the
\* body has one.
toApiError_httpFromBody(statusCode, body, n) ==
    IF ~Readable(body)
    THEN [Nil EXCEPT !.kind = "readBody", !.attempt = n]
    ELSE IF ~Unmarshals(body)
    THEN [Nil EXCEPT !.kind = "decode", !.raw = body, !.http = statusCode,
                     !.attempt = n]
    ELSE IF statusCode = StatusOK /\ EnvStatus(body) = ApiStatusOK
    THEN Nil
    ELSE [Nil EXCEPT !.kind = "api", !.status = EnvStatus(body),
                     !.msg = EnvErr(body),
                     !.http = IF BodyHttpStatus(body) # 0
                              THEN BodyHttpStatus(body) ELSE statusCode,
                     !.attempt = n]

\* Client.toApiError, on the response of attempt n
toApiError(statusCode, body, n) ==
    IF ~Readable(body)
    THEN [Nil EXCEPT !.kind = "readBody", !.attempt = n]
    ELSE IF ~Unmarshals(body)
    THEN [Nil EXCEPT !.kind = "decode", !.raw = body, !.http = statusCode,
                     !.attempt = n]
    ELSE IF statusCode = StatusOK /\ EnvStatus(body) = ApiStatusOK
    THEN Nil
    ELSE [Nil EXCEPT !.kind = "api", !.status = EnvStatus(body),
                     !.msg = EnvErr(body), !.http = statusCode, !.attempt = n]

\* io.ReadAll(resp.Body) on a 200 response: the bytes read, and the error
ReadAll(body, n) ==
    IF Readable(body)
    THEN [bytes |-> body, err |-> Nil]
    ELSE [bytes |-> "partial", err |-> ReadAllError(n)]

\* What the HTTP client hands to an attempt.
NoResponse == [kind |-> "none", status |-> 0, body |-> "empty"]

TransportFailure == [kind |-> "transport", status |-> 0, body |-> "empty"]

HttpResponses(statuses) == [kind : {"http"}, status : statuses, body : Bodies]

\* Faults of Client.doOnce: no failure is marked permanent; the envelope of
\* a 200 response is decoded and decides.
doOnce_neverPermanent(r, n) ==
    IF r.kind = "transport"
    THEN [bytes |-> "nil", err |-> TransportError(n)]
    ELSE IF r.status # StatusOK
    THEN [bytes |-> "nil", err |-> toApiError(r.status, r.body, n)]
    ELSE ReadAll(r.body, n)

doOnce_envelopeOn200(r, n) ==
    IF r.kind = "transport"
    THEN [bytes |-> "nil", err |-> TransportError(n)]
    ELSE LET apiErr == toApiError(r.status, r.body, n)
         IN  IF r.status # StatusOK /\ ~isRetriable(r.status)
             THEN [bytes |-> "nil", err |-> Permanent(apiErr)]
             ELSE IF apiErr # Nil
             THEN [bytes |-> "nil", err |-> apiErr]
             ELSE ReadAll(r.body, n)

\* Fault of Client.doOnce: a decode error is marked permanent whatever the
\* status code.
doOnce_decodePermanent(r, n) ==
    IF r.kind = "transport"
    THEN [bytes |-> "nil", err |-> TransportError(n)]
    ELSE IF r.status # StatusOK
    THEN LET apiErr == toApiError(r.status, r.body, n)
         IN  IF ~isRetriable(r.status) \/ apiErr.kind = "decode"
             THEN [bytes |-> "nil", err |-> Permanent(apiErr)]
             ELSE [bytes |-> "nil", err |-> apiErr]
    ELSE ReadAll(r.body, n)
\* Fault of Client.doOnce: the error of HttpClient.Do is marked permanent.
doOnce_transportPermanent(r, n) ==
    IF r.kind = "transport"
    THEN [bytes |-> "nil", err |-> Permanent(TransportError(n))]
    ELSE IF r.status # StatusOK
    THEN LET apiErr == toApiError(r.status, r.body, n)
         IN  IF ~isRetriable(r.status)
             THEN [bytes |-> "nil", err |-> Permanent(apiErr)]
             ELSE [bytes |-> "nil", err |-> apiErr]
    ELSE ReadAll(r.body, n)

\* Client.doOnce, as attempt n, given what HttpClient.Do returns
doOnce(r, n) ==
    IF r.kind = "transport"
    THEN [bytes |-> "nil", err |-> TransportError(n)]
    ELSE IF r.status # StatusOK
    THEN LET apiErr == toApiError(r.status, r.body, n)
         IN  IF ~isRetriable(r.status)
             THEN [bytes |-> "nil", err |-> Permanent(apiErr)]
             ELSE [bytes |-> "nil", err |-> apiErr]
    ELSE ReadAll(r.body, n)

----------------------------------------------------------------------------
\* The back-off handed to the retry loop.

\* ExponentialBackOff.incrementCurrentInterval
incrementCurrentInterval(cur) ==
    IF cur >= MaxInterval \div Multiplier THEN MaxInterval ELSE cur * Multiplier

\* getRandomValueFromInterval: j = 0, 1, 2 stand for the random numbers that
\* give the least, the middle and the greatest value of the interval
JitterSamples == 0 .. 2

getRandomValueFromInterval(cur, j) ==
    LET delta == (RandomizationPercent * cur) \div 100
    IN  (cur - delta) + j * delta

\* ExponentialBackOff.NextBackOff with the clock reading e
ExponentialNextBackOff(cur, e, j) ==
    LET next == getRandomValueFromInterval(cur, j)
    IN  [stopped |-> (MaxElapsedTime # 0 /\ e + next > MaxElapsedTime),
         reason |-> "elapsed",
         next |-> next,
         currentInterval |-> incrementCurrentInterval(cur),
         elapsed |-> e]

\* Faults of the retry count: one retry too few; one retry too many.
TriesExhausted_early(maxTries, tries) == maxTries = 0 \/ maxTries <= tries + 1

TriesExhausted_late(maxTries, tries) == maxTries = 0 \/ maxTries < tries

\* backOffTries.NextBackOff: the guard that answers Stop without asking the
\* delegate
TriesExhausted(maxTries, tries) == maxTries = 0 \/ maxTries <= tries

\* backOffTries.NextBackOff
NextBackOff(maxTries, tries, cur, el, e, j) ==
    IF TriesExhausted(maxTries, tries)
    THEN [stopped |-> TRUE, reason |-> "maxTries", next |-> 0,
          currentInterval |-> cur, elapsed |-> el, numTries |-> tries]
    ELSE [numTries |-> tries + 1] @@ ExponentialNextBackOff(cur, e, j)

\* getContext(b): neither back-off carries a context, so the loop watches
\* context.Background(), whose Err() is always nil
BackoffCtxErr == Nil

\* Fault of the loop's exit: a generic error instead of the last one.
RetryStopError_generic(e) == [Nil EXCEPT !.kind = "retriesExhausted"]

\* doRetryNotify when NextBackOff says Stop
RetryStopError(e) == IF BackoffCtxErr # Nil THEN BackoffCtxErr ELSE e

\* Fault of the loop's exit on a permanent error: the error is dropped.
RetryPermanentError_dropped(e) == Nil

\* doRetryNotify when the operation returned a *PermanentError
RetryPermanentError(e) == Unwrap(e)

\* The retry loop of a Client with retries disabled (maxTries = 0) around
\* one run of the operation that returned out: what do() returns
RetryOnce(out) ==
    IF out.err = Nil THEN out
    ELSE IF out.err.permanent
    THEN [bytes |-> out.bytes, err |-> RetryPermanentError(out.err)]
    ELSE [bytes |-> out.bytes, err |-> RetryStopError(out.err)]

----------------------------------------------------------------------------
\* The environment of one call.

\* Status codes the server answers a call with.
CallStatuses == {200, 202, 404, 429, 500}

Responses == {TransportFailure} \cup HttpResponses(CallStatuses)

\* Readings of the back-off's clock, in seconds since its Reset.
ElapsedSamples == {0, 850, 900}

\* The value of Client.MaxRetries.
MaxRetriesValues == -1 .. MaxRetriesBound

NoResult == [bytes |-> "nil", err |-> Nil]

OnceIdle == [phase |-> "idle", resp |-> NoResponse, out |-> NoResult,
             ret |-> NoResult]

\* What HttpClient.Do hands to an attempt made with ctx: once ctx is done,
\* net/http returns ctx.Err() and no response.
ResponsesUnder(at) == IF at >= 0 THEN {TransportFailure} ELSE Responses

\* No call on the gzip revision is in progress.
GzIdle == [pc |-> "idle"]

\* No concurrent calls are in progress; no filter is being marshalled.
ParIdle == [phase |-> "idle"]

FltIdle == [phase |-> "idle"]

\* No call of Upsert, Delete or DeleteByFilter is in progress.
UpsIdle == [phase |-> "idle"]

\* The observer behind failsHttp: a response whose status the documentation
\* of the service lists as worth retrying.
ListedStatus(r) ==
    r.kind = "http" /\ (r.status >= 500 \/ r.status \in {408, 429, 202})

----------------------------------------------------------------------------
\* A Client value and a call about to be made on it.
Init ==
    /\ cfg \in [MaxRetries : MaxRetriesValues, DisableRetry : BOOLEAN,
                urlParses : BOOLEAN]
    /\ pc = "start"
    /\ attempts = 0
    /\ numTries = 0
    /\ currentInterval = InitialInterval
    /\ elapsed = 0
    /\ timerStarts = 0
    /\ timerDuration = 0
    /\ resp = NoResponse
    /\ err = Nil
    /\ ret = NoResult
    /\ stop = "none"
    /\ failsHttp = 0
    /\ cancelledAt = -1
    /\ once = OnceIdle
    /\ gz = GzIdle
    /\ par = ParIdle
    /\ flt = FltIdle
    /\ ups = UpsIdle

\* Client.do up to the retry loop: build the URL, then b.Reset()
Begin ==
    /\ pc = "start"
    /\ IF cfg.urlParses
       THEN /\ pc' = "attempting"
            /\ UNCHANGED << ret, stop >>
       ELSE /\ pc' = "done"
            /\ ret' = [bytes |-> "nil", err |-> UrlError]
            /\ stop' = "url"
    /\ numTries' = 0
    /\ currentInterval' = InitialInterval
    /\ elapsed' = 0
    /\ UNCHANGED << cfg, attempts, timerStarts, timerDuration, resp, err,
                    failsHttp, cancelledAt, once, gz, par, flt, ups >>

\* One iteration of doRetryNotify: run the operation (Client.doOnce, which
\* gets r from the HTTP client), then return or ask the back-off for the
\* next wait (the clock reads e, the random number is j) and start the Timer.
Attempt ==
    /\ pc = "attempting"
    /\ attempts < MaxAttempts
    /\ \E r \in ResponsesUnder(cancelledAt) :
        LET n   == attempts + 1
            out == doOnce(r, n)
            maxTries == ToUint64(maxRetries(cfg))
            asked == out.err # Nil /\ ~out.err.permanent
                     /\ ~TriesExhausted(maxTries, numTries)
        IN  /\ attempts' = n
            /\ resp' = r
            /\ err' = out.err
            /\ failsHttp' = IF ListedStatus(r) THEN failsHttp + 1 ELSE failsHttp
            /\ IF out.err = Nil
               THEN /\ ret' = [bytes |-> out.bytes, err |-> Nil]
                    /\ pc' = "done"
                    /\ stop' = "success"
                    /\ UNCHANGED << numTries, currentInterval, elapsed,
                                    timerStarts, timerDuration >>
               ELSE IF out.err.permanent
               THEN /\ ret' = [bytes |-> out.bytes,
                               err |-> RetryPermanentError(out.err)]
                    /\ pc' = "done"
                    /\ stop' = "permanent"
                    /\ UNCHANGED << numTries, currentInterval, elapsed,
                                    timerStarts, timerDuration >>
               ELSE \E e \in (IF asked THEN {x \in ElapsedSamples : x >= elapsed}
                                       ELSE {elapsed}),
                       j \in (IF asked THEN JitterSamples ELSE {0}) :
                    LET b == NextBackOff(maxTries, numTries, currentInterval,
                                         elapsed, e, j)
                    IN  /\ numTries' = b.numTries
                        /\ currentInterval' = b.currentInterval
                        /\ elapsed' = b.elapsed
                        /\ IF b.stopped
                           THEN /\ ret' = [bytes |-> out.bytes,
                                           err |-> RetryStopError(out.err)]
                                /\ pc' = "done"
                                /\ stop' = b.reason
                                /\ UNCHANGED << timerStarts, timerDuration >>
                           ELSE /\ timerStarts' = timerStarts + 1
                                /\ timerDuration' = b.next
                                /\ pc' = "waiting"
                                /\ UNCHANGED << ret, stop >>
    /\ UNCHANGED << cfg, cancelledAt, once, gz, par, flt, ups >>

\* The Timer's channel delivers: the select of doRetryNotify returns and the
\* loop runs the operation again.
TimerFires ==
    /\ pc = "waiting"
    /\ pc' = "attempting"
    /\ UNCHANGED << cfg, attempts, numTries, currentInterval, elapsed,
                    timerStarts, timerDuration, resp, err, ret, stop,
                    failsHttp, cancelledAt, once, gz, par, flt, ups >>

Next == Begin \/ Attempt \/ TimerFires

Spec == Init /\ [][Next]_vars

\* The same call when every attempt returns (HttpClient.Do comes back with a
\* response or an error) and the Timer delivers after each Start: no step
\* of the loop that can be taken is put off for ever.
SpecLive ==
    /\ Init
    /\ [][Next]_vars
    /\ WF_vars(Begin)
    /\ WF_vars(Attempt)
    /\ WF_vars(TimerFires)

----------------------------------------------------------------------------
\* The same call when its context may be cancelled (or its deadline may
\* pass) at any moment before do() returns.
Cancel ==
    /\ pc # "done"
    /\ cancelledAt = -1
    /\ cancelledAt' = attempts
    /\ UNCHANGED << cfg, pc, attempts, numTries, currentInterval, elapsed,
                    timerStarts, timerDuration, resp, err, ret, stop,
                    failsHttp, once, gz, par, flt, ups >>

NextCtx == Begin \/ Attempt \/ TimerFires \/ Cancel

SpecCtx == Init /\ [][NextCtx]_vars

----------------------------------------------------------------------------
\* A single doOnce applied to every response of a wide range of statuses.

OnceStatuses == MinStatus .. MaxStatus

\* Beside the bodies of a call: a body that is not JSON at all, and the
\* error envelope with the further keys "HttpStatus": 200, "http_status": 200.
OnceBodies == Bodies \cup {"html", "envErrorHttp"}

OnceResponses ==
    {TransportFailure}
        \cup [kind : {"http"}, status : OnceStatuses, body : OnceBodies]

InitOnce ==
    /\ cfg = [MaxRetries |-> 0, DisableRetry |-> TRUE, urlParses |-> TRUE]
    /\ pc = "start"
    /\ attempts = 0
    /\ numTries = 0
    /\ currentInterval = InitialInterval
    /\ elapsed = 0
    /\ timerStarts = 0
    /\ timerDuration = 0
    /\ resp = NoResponse
    /\ err = Nil
    /\ ret = NoResult
    /\ stop = "none"
    /\ failsHttp = 0
    /\ cancelledAt = -1
    /\ once \in [phase : {"input"}, resp : OnceResponses, out : {NoResult},
                  ret : {NoResult}]
    /\ gz = GzIdle
    /\ par = ParIdle
    /\ flt = FltIdle
    /\ ups = UpsIdle

ApplyDoOnce ==
    /\ once.phase = "input"
    /\ once' = [phase |-> "output", resp |-> once.resp,
                out |-> doOnce(once.resp, 1),
                ret |-> RetryOnce(doOnce(once.resp, 1))]
    /\ UNCHANGED callVars
    /\ UNCHANGED << gz, par, flt, ups >>

NextOnce == ApplyDoOnce

SpecOnce == InitOnce /\ [][NextOnce]_vars

----------------------------------------------------------------------------
\* The revision with gzip support (src/unnamed/part_001): the model of one
\* call is the record gz, with the fields
\*   pc, client, call       position, the Client, the arguments of the call
\*   reader, reads          the caller's io.Reader and how often it was read
\*   reqUrl, bodyBytes      the locals of Client.do
\*   sent                   the requests handed to HttpClient.Do, in order
\*   numTries, currentInterval, elapsed    the back-off
\*   resp, err, ret, stop   as for the call above

\* Byte strings of a request body: what they hold and how they are encoded.
NilBody == [enc |-> "nil", data |-> ""]

Plain(d) == [enc |-> "plain", data |-> d]

\* gzip.Writer over the bytes b
Gzip(b) == [enc |-> "gzip", data |-> b.data]

\* gzip.Reader over the bytes z, as the server applies it
Gunzip(z) ==
    IF z.enc = "gzip"
    THEN [ok |-> TRUE, bytes |-> Plain(z.data)]
    ELSE [ok |-> FALSE, bytes |-> NilBody]

\* The caller's io.Reader: nil, one whose Read fails, or one that yields data.
NilReader == [state |-> "nil", data |-> ""]

Readers ==
    {NilReader, [state |-> "failing", data |-> ""]}
        \cup [state : {"ready"}, data : {"", "{k:v}", "{a:1}"}]

\* io.ReadAll(body) in Client.do: the bytes, whether it failed, and the
\* reader afterwards
ReadAllBody(rd) ==
    CASE rd.state = "failing" ->
            [ok |-> FALSE, bytes |-> NilBody, reader |-> rd]
      [] rd.state = "ready" ->
            [ok |-> TRUE, bytes |-> Plain(rd.data),
             reader |-> [state |-> "drained", data |-> ""]]
      [] OTHER ->
            [ok |-> TRUE, bytes |-> Plain(""), reader |-> rd]

\* url.Values.Encode()
Encode(values) == IF values = {} THEN "" ELSE "limit=10"

GzPath == "/v1/vectors/ns"

\* url.JoinPath(c.baseURL(), path), url.Parse, RawQuery = values.Encode()
RequestUrl(path, values) ==
    [base |-> "https://api.turbopuffer.com", path |-> path,
     rawQuery |-> Encode(values)]

\* Client.get, Client.post, Client.delete: the arguments they hand to do
GetCalls ==
    [method : {"GET"}, path : {GzPath},
     values : {{}, {<< "limit", "10" >>}}, body : {NilReader}]

PostCalls ==
    [method : {"POST"}, path : {GzPath}, values : {{}}, body : Readers]

DeleteCalls ==
    [method : {"DELETE"}, path : {GzPath}, values : {{}}, body : {NilReader}]

Calls == GetCalls \cup PostCalls \cup DeleteCalls

\* Fault of the operation closure: each attempt reads the caller's reader
\* again instead of the buffered bytes.
bodyToUse_fromReader(bodyBytes, rd) ==
    IF rd.state = "nil" THEN NilBody ELSE ReadAllBody(rd).bytes

\* The closure handed to the retry loop: bytes.NewReader(bodyBytes) if
\* bodyBytes is not nil, else a nil io.Reader
bodyToUse(bodyBytes, rd) ==
    IF bodyBytes # NilBody THEN bodyBytes ELSE NilBody

NoHeader ==
    [Authorization |-> << >>, ContentType |-> "", Accept |-> "",
     AcceptEncoding |-> "", ContentEncoding |-> ""]

\* http.NewRequestWithContext: a nil reader gives a nil Body, any other
\* reader (an empty one included, which becomes http.NoBody) a Body
NewRequest(method, reqUrl, body) ==
    [method |-> method, url |-> reqUrl, header |-> NoHeader, body |-> body]

\* Faults of Client.maybeEncodeGzip: Content-Encoding set although there is
\* no body; the header set but the body left as it was.
maybeEncodeGzip_alwaysContentEncoding(req) ==
    LET h == [req.header EXCEPT !.AcceptEncoding = "gzip",
                                !.ContentEncoding = "gzip"]
    IN  IF req.body = NilBody
        THEN [req EXCEPT !.header = h]
        ELSE [req EXCEPT !.header = h, !.body = Gzip(req.body)]

maybeEncodeGzip_headerOnly(req) ==
    LET h == [req.header EXCEPT !.AcceptEncoding = "gzip"]
    IN  IF req.body = NilBody
        THEN [req EXCEPT !.header = h]
        ELSE [req EXCEPT !.header = [h EXCEPT !.ContentEncoding = "gzip"]]

\* Client.maybeEncodeGzip
maybeEncodeGzip(req) ==
    LET h == [req.header EXCEPT !.AcceptEncoding = "gzip"]
    IN  IF req.body = NilBody
        THEN [req EXCEPT !.header = h]
        ELSE [req EXCEPT !.header = [h EXCEPT !.ContentEncoding = "gzip"],
                         !.body = Gzip(req.body)]

\* Fault of the headers of Client.doOnce: the token sent without "Bearer ".
SetHeaders_bareToken(c, req) ==
    [req EXCEPT !.header.Authorization = << "", c.ApiToken >>,
                !.header.ContentType = "application/json",
                !.header.Accept = "application/json"]

\* Client.doOnce: the three req.Header.Set
SetHeaders(c, req) ==
    [req EXCEPT !.header.Authorization = << "Bearer ", c.ApiToken >>,
                !.header.ContentType = "application/json",
                !.header.Accept = "application/json"]

\* Client.doOnce up to HttpClient.Do: the request of one attempt
BuildRequest(c, method, reqUrl, body) ==
    LET req == SetHeaders(c, NewRequest(method, reqUrl, body))
    IN  IF c.UseGzipEncoding THEN maybeEncodeGzip(req) ELSE req
\* Response bodies on the wire: the bodies above sent as they are, or the
\* gzip stream of one of them.
GzContents == {"empty", "envError", "rows"}

GzipOf(body) ==
    CASE body = "empty" -> "gzip(empty)"
      [] body = "envError" -> "gzip(envError)"
      [] body = "rows" -> "gzip(rows)"

GzStreams == {GzipOf(b) : b \in GzContents}

WireBodies == GzContents \cup GzStreams

\* gzip.NewReader(resp.Body) accepts the body: it starts with a gzip header
IsGzipStream(body) == body \in GzStreams

\* what reading through the gzip.Reader yields
GunzipOf(body) == CHOOSE b \in GzContents : GzipOf(b) = body

GzStatuses == {200, 400, 503}

WireResponses ==
    [kind : {"transport"}, status : {0}, body : {"empty"},
     contentEncoding : {""}]
        \cup [kind : {"http"}, status : GzStatuses, body : WireBodies,
              contentEncoding : {"", "gzip"}]

GzNoResponse ==
    [kind |-> "none", status |-> 0, body |-> "empty", contentEncoding |-> ""]

\* Fault of Client.maybeDecodeGzip: the body is taken as it is.
maybeDecodeGzip_skips(r, n) == [err |-> Nil, resp |-> r]

\* Client.maybeDecodeGzip
maybeDecodeGzip(r, n) ==
    IF r.contentEncoding # "gzip"
    THEN [err |-> Nil, resp |-> r]
    ELSE IF ~IsGzipStream(r.body)
    THEN [err |-> [Nil EXCEPT !.kind = "gzipReader", !.attempt = n],
          resp |-> r]
    ELSE [err |-> Nil, resp |-> [r EXCEPT !.body = GunzipOf(r.body)]]

\* Client.doOnce of the gzip revision from HttpClient.Do on: on success the
\* response is returned and the caller reads resp.Body
doOnceGz(c, r, n) ==
    IF r.kind = "transport"
    THEN [resp |-> GzNoResponse, err |-> TransportError(n)]
    ELSE LET d == IF c.UseGzipEncoding
                  THEN maybeDecodeGzip(r, n)
                  ELSE [err |-> Nil, resp |-> r]
         IN  IF d.err # Nil
             THEN [resp |-> GzNoResponse, err |-> d.err]
             ELSE IF d.resp.status # StatusOK
             THEN LET apiErr == toApiError(d.resp.status, d.resp.body, n)
                  IN  IF ~isRetriable(d.resp.status)
                      THEN [resp |-> GzNoResponse, err |-> Permanent(apiErr)]
                      ELSE [resp |-> GzNoResponse, err |-> apiErr]
             ELSE [resp |-> d.resp, err |-> Nil]

\* The body of a response as HttpClient.Do hands it over: the stream of the
\* connection, open.  wrapped: resp.Body has been replaced by a gzip.Reader
\* over it; readerClosed: that gzip.Reader is closed; handed: the response
\* has been returned to the caller of do().
NoBody ==
    [exists |-> FALSE, wrapped |-> FALSE, closed |-> FALSE,
     readerClosed |-> FALSE, handed |-> FALSE]

HttpBody == [NoBody EXCEPT !.exists = TRUE]

\* maybeDecodeGzip: resp.Body = gzipReader
WrapGzip(b) == [b EXCEPT !.wrapped = TRUE]

\* resp.Body.Close().  Close of a gzip.Reader does not close the reader it
\* reads from.
CloseBody(b) ==
    IF b.wrapped THEN [b EXCEPT !.readerClosed = TRUE]
    ELSE [b EXCEPT !.closed = TRUE]

\* What Client.doOnce of the gzip revision does to the body of the response
\* of attempt n
doOnceBody(c, r, n) ==
    IF r.kind = "transport" THEN NoBody
    ELSE IF c.UseGzipEncoding /\ maybeDecodeGzip(r, n).err # Nil
    THEN CloseBody(HttpBody)
    ELSE LET b == IF c.UseGzipEncoding /\ r.contentEncoding = "gzip"
                  THEN WrapGzip(HttpBody) ELSE HttpBody
         IN  IF r.status # StatusOK THEN CloseBody(b)
             ELSE [b EXCEPT !.handed = TRUE]

\* The retries a Client of this revision is configured with.
GzMaxRetries == 2

GzClients ==
    [ApiToken : {"tokA", "tokB"}, UseGzipEncoding : BOOLEAN,
     MaxRetries : {GzMaxRetries}, DisableRetry : {FALSE}]

GzElapsedSamples == {0, 900}

GzNoResult == [resp |-> GzNoResponse, err |-> Nil]

GzStart(c, call) ==
    [pc |-> "start", client |-> c, call |-> call, reader |-> call.body,
     reads |-> 0, reqUrl |-> RequestUrl("", {}), bodyBytes |-> NilBody,
     sent |-> << >>, bodies |-> << >>, numTries |-> 0,
     currentInterval |-> InitialInterval, elapsed |-> 0, resp |-> GzNoResponse, err |-> Nil, ret |-> GzNoResult,
     stop |-> "none"]

InitGz ==
    /\ cfg = [MaxRetries |-> 0, DisableRetry |-> TRUE, urlParses |-> TRUE]
    /\ pc = "start"
    /\ attempts = 0
    /\ numTries = 0
    /\ currentInterval = InitialInterval
    /\ elapsed = 0
    /\ timerStarts = 0
    /\ timerDuration = 0
    /\ resp = NoResponse
    /\ err = Nil
    /\ ret = NoResult
    /\ stop = "none"
    /\ failsHttp = 0
    /\ cancelledAt = -1
    /\ once = OnceIdle
    /\ gz \in {GzStart(c, call) : c \in GzClients, call \in Calls}
    /\ par = ParIdle
    /\ flt = FltIdle
    /\ ups = UpsIdle

\* Client.do up to the retry loop: the URL, then the caller's body read
\* into bodyBytes
GzBegin ==
    /\ gz.pc = "start"
    /\ LET u == RequestUrl(gz.call.path, gz.call.values)
           rd == ReadAllBody(gz.reader)
       IN  IF gz.reader.state = "nil"
           THEN gz' = [gz EXCEPT !.pc = "attempting", !.reqUrl = u]
           ELSE IF ~rd.ok
           THEN gz' = [gz EXCEPT !.pc = "done", !.reqUrl = u,
                                 !.reads = gz.reads + 1,
                                 !.ret.err = [Nil EXCEPT !.kind = "readRequestBody"],
                                 !.stop = "readRequestBody"]
           ELSE gz' = [gz EXCEPT !.pc = "attempting", !.reqUrl = u,
                                 !.reads = gz.reads + 1,
                                 !.reader = rd.reader,
                                 !.bodyBytes = rd.bytes]
    /\ UNCHANGED callVars
    /\ UNCHANGED << once, par, flt, ups >>

\* One iteration of the retry loop: the closure builds the request from
\* bodyBytes, doOnce sends it and classifies the answer r, then the loop
\* returns or asks the back-off and starts the Timer.
GzAttempt ==
    /\ gz.pc = "attempting"
    /\ \E r \in WireResponses :
        LET n   == Len(gz.sent) + 1
            req == BuildRequest(gz.client, gz.call.method, gz.reqUrl,
                                bodyToUse(gz.bodyBytes, gz.reader))
            out == doOnceGz(gz.client, r, n)
            maxTries == ToUint64(maxRetries(gz.client))
            asked == out.err # Nil /\ ~out.err.permanent
                     /\ ~TriesExhausted(maxTries, gz.numTries)
            g == [gz EXCEPT !.sent = Append(gz.sent, req), !.resp = r,
                            !.err = out.err,
                            !.bodies = Append(gz.bodies,
                                              doOnceBody(gz.client, r, n))]
        IN  IF out.err = Nil
            THEN gz' = [g EXCEPT !.pc = "done", !.stop = "success",
                                 !.ret = [resp |-> out.resp, err |-> Nil]]
            ELSE IF out.err.permanent
            THEN gz' = [g EXCEPT !.pc = "done", !.stop = "permanent",
                                 !.ret.err = RetryPermanentError(out.err)]
            ELSE \E e \in (IF asked THEN {x \in GzElapsedSamples : x >= gz.elapsed}
                                    ELSE {gz.elapsed}),
                    j \in (IF asked THEN JitterSamples ELSE {0}) :
                 LET b == NextBackOff(maxTries, gz.numTries,
                                      gz.currentInterval, gz.elapsed, e, j)
                     h == [g EXCEPT !.numTries = b.numTries,
                                    !.currentInterval = b.currentInterval,
                                    !.elapsed = b.elapsed]
                 IN  IF b.stopped
                     THEN gz' = [h EXCEPT !.pc = "done", !.stop = b.reason,
                                          !.ret.err = RetryStopError(out.err)]
                     ELSE gz' = [h EXCEPT !.pc = "waiting"]
    /\ UNCHANGED callVars
    /\ UNCHANGED << once, par, flt, ups >>

\* The Timer's channel delivers.
GzTimerFires ==
    /\ gz.pc = "waiting"
    /\ gz' = [gz EXCEPT !.pc = "attempting"]
    /\ UNCHANGED callVars
    /\ UNCHANGED << once, par, flt, ups >>

NextGz == GzBegin \/ GzAttempt \/ GzTimerFires

SpecGz == InitGz /\ [][NextGz]_vars
----------------------------------------------------------------------------
\* Two calls of Client.do running concurrently on one Client (src/client.go).
\* The state is the record par:
\*   client   the Client: MaxRetries, and whether its Timer field is set
\*   calls    for each call: the position of its goroutine (with "inflight"
\*            for the time between HttpClient.Do being invoked and the
\*            response being classified), the body it was given and the body
\*            of the last request it sent, counters of attempts started and
\*            classified, of Timer.Start and of values received from the
\*            timer's channel, the state of its back-off, the last error and
\*            why its loop ended
\*   timers   timers[0] is Client.Timer, timers[i] the defaultTimer that the
\*            retry loop of call i makes for itself when Client.Timer is nil
\* A timer is a time.Timer behind the backoff.Timer interface: it is armed
\* by Start, delivers one value on its channel when it expires, and is
\* disarmed by Stop.

\* The call of the back-off's base vars that is not running.
BaseIdle ==
    /\ cfg = [MaxRetries |-> 0, DisableRetry |-> TRUE, urlParses |-> TRUE]
    /\ pc = "start"
    /\ attempts = 0
    /\ numTries = 0
    /\ currentInterval = InitialInterval
    /\ elapsed = 0
    /\ timerStarts = 0
    /\ timerDuration = 0
    /\ resp = NoResponse
    /\ err = Nil
    /\ ret = NoResult
    /\ stop = "none"
    /\ failsHttp = 0
    /\ cancelledAt = -1
    /\ once = OnceIdle
    /\ gz = GzIdle
    /\ ups = UpsIdle

ParCalls == 1 .. 2

\* The retries the shared Client is configured with.
ParMaxRetries == 2

ParResponses ==
    {TransportFailure,
     [kind |-> "http", status |-> 200, body |-> "rows"],
     [kind |-> "http", status |-> 404, body |-> "envError"],
     [kind |-> "http", status |-> 503, body |-> "envError"]}

\* Clock readings of a back-off; a reading of MaxElapsedTime ends the call.
ParElapsedSamples == {0, MaxElapsedTime}

TimerIdle == [armed |-> FALSE, pending |-> FALSE]

\* doRetryNotify: t is Client.Timer, or a new defaultTimer if that is nil
TimerOf(c, i) == IF c.Timer = "set" THEN 0 ELSE i

\* Timer.Start(d): time.NewTimer(d) or timer.Reset(d)
TimerStart(t) == [t EXCEPT !.armed = TRUE]

\* Timer.Stop(): timer.Stop()
TimerStop(t) == [t EXCEPT !.armed = FALSE]

\* Fault of the retry loop: the timer is started before the back-off is
\* asked, so also when the loop then returns.
TimerStartsAfter_always(stopped) == 1

\* doRetryNotify after a failure that is not permanent: the calls of t.Start
\* it makes, given whether NextBackOff answered Stop
TimerStartsAfter(stopped) == IF stopped THEN 0 ELSE 1

\* Fault of the retry loop: the next run of the operation is launched
\* without waiting for the one in flight.
CanStartAttempt_racing(c) == c.pc \in {"attempting", "inflight"}

\* The loop is at the call of the operation
CanStartAttempt(c) == c.pc = "attempting"

ParCallStart(body) ==
    [pc |-> "start", body |-> body, sentBody |-> NilBody, started |-> 0,
     classified |-> 0, numTries |-> 0, currentInterval |-> InitialInterval,
     timerStarts |-> 0, signals |-> 0, err |-> Nil, stop |-> "none"]

\* The steps of the concurrent calls leave everything else alone.
ParFrame == UNCHANGED callVars /\ UNCHANGED << once, gz, flt, ups >>

InitPar ==
    /\ BaseIdle
    /\ flt = FltIdle
    /\ par \in [phase : {"running"},
                client : [MaxRetries : {ParMaxRetries}, DisableRetry : {FALSE},
                          Timer : {"nil", "set"}],
                calls : {[i \in ParCalls |->
                            ParCallStart(Plain(IF i = 1 THEN "{k:v}" ELSE "{a:1}"))]},
                timers : {[k \in 0 .. 2 |-> TimerIdle]}]

\* Client.do of call i up to the retry loop, and b.Reset()
ParBegin(i) ==
    /\ par.calls[i].pc = "start"
    /\ par' = [par EXCEPT !.calls[i].pc = "attempting"]
    /\ ParFrame

\* The operation of call i is run: doOnce builds the request from the
\* call's body and invokes HttpClient.Do
ParStartAttempt(i) ==
    /\ CanStartAttempt(par.calls[i])
    /\ par.calls[i].started <= ParMaxRetries + 1
    /\ par' = [par EXCEPT !.calls[i].pc = "inflight",
                          !.calls[i].started = @ + 1,
                          !.calls[i].sentBody = par.calls[i].body]
    /\ ParFrame

\* HttpClient.Do of call i returns r; doOnce classifies it and the loop
\* returns (running the deferred t.Stop()) or starts the timer
ParFinishAttempt(i) ==
    /\ par.calls[i].pc = "inflight"
    /\ \E r \in ParResponses :
        LET c   == par.calls[i]
            k   == TimerOf(par.client, i)
            out == doOnce(r, c.started)
            maxTries == ToUint64(maxRetries(par.client))
            asked == out.err # Nil /\ ~out.err.permanent
                     /\ ~TriesExhausted(maxTries, c.numTries)
            d == [c EXCEPT !.classified = @ + 1, !.pc = "done"]
        IN  IF out.err = Nil
            THEN par' = [par EXCEPT
                    !.calls[i] = [d EXCEPT !.err = Nil, !.stop = "success"],
                    !.timers[k] = TimerStop(@)]
            ELSE IF out.err.permanent
            THEN par' = [par EXCEPT
                    !.calls[i] = [d EXCEPT !.err = RetryPermanentError(out.err),
                                           !.stop = "permanent"],
                    !.timers[k] = TimerStop(@)]
            ELSE \E e \in (IF asked THEN ParElapsedSamples ELSE {0}),
                    j \in (IF asked THEN JitterSamples ELSE {0}) :
                 LET b == NextBackOff(maxTries, c.numTries, c.currentInterval,
                                      0, e, j)
                 IN  IF b.stopped
                     THEN par' = [par EXCEPT
                            !.calls[i] = [d EXCEPT
                                !.err = RetryStopError(out.err),
                                !.stop = b.reason,
                                !.numTries = b.numTries,
                                !.currentInterval = b.currentInterval,
                                !.timerStarts = @ + TimerStartsAfter(TRUE)],
                            !.timers[k] = TimerStop(@)]
                     ELSE par' = [par EXCEPT
                            !.calls[i] = [c EXCEPT
                                !.classified = @ + 1,
                                !.pc = "waiting",
                                !.err = out.err,
                                !.numTries = b.numTries,
                                !.currentInterval = b.currentInterval,
                                !.timerStarts = @ + TimerStartsAfter(FALSE)],
                            !.timers[k] = TimerStart(@)]
    /\ ParFrame

\* The time.Timer behind timer k expires: one value goes to its channel.
ParTimerExpires(k) ==
    /\ par.timers[k].armed
    /\ par' = [par EXCEPT !.timers[k] = [armed |-> FALSE, pending |-> TRUE]]
    /\ ParFrame

\* The select of call i receives from t.C(); the loop runs the operation
\* again
ParReceive(i) ==
    /\ par.calls[i].pc = "waiting"
    /\ par.timers[TimerOf(par.client, i)].pending
    /\ par' = [par EXCEPT !.calls[i].pc = "attempting",
                          !.calls[i].signals = @ + 1,
                          !.timers[TimerOf(par.client, i)].pending = FALSE]
    /\ ParFrame

NextPar ==
    \/ \E i \in ParCalls : ParBegin(i)
    \/ \E i \in ParCalls : ParStartAttempt(i)
    \/ \E i \in ParCalls : ParFinishAttempt(i)
    \/ \E k \in 0 .. 2 : ParTimerExpires(k)
    \/ \E i \in ParCalls : ParReceive(i)

SpecPar == InitPar /\ [][NextPar]_vars
----------------------------------------------------------------------------
\* Filters (src/unnamed/part_004) and their encoding by json.Marshal.

\* JSON values, tagged by their kind: n is the number, s the string, a the
\* items of the array.
JNull == [t |-> "null", n |-> 0, s |-> "", a |-> << >>]

JNum(n) == [JNull EXCEPT !.t = "number", !.n = n]

JStr(s) == [JNull EXCEPT !.t = "string", !.s = s]

JArr(items) == [JNull EXCEPT !.t = "array", !.a = items]

\* A value json.Marshal has no encoding for.
JUnsupported == [JNull EXCEPT !.t = "unsupported"]

\* Go values put in BaseFilter.Value: an int, a string, a []int, nil, and
\* a channel (which json.Marshal rejects).
NoValue == [t |-> "nil", n |-> 0, s |-> "", a |-> << >>]

GoInt(n) == [NoValue EXCEPT !.t = "int", !.n = n]

GoString(s) == [NoValue EXCEPT !.t = "string", !.s = s]

GoInts(a) == [NoValue EXCEPT !.t = "[]int", !.a = a]

GoValues ==
    {GoInt(42), GoInt(10), GoString("value1"), GoInts(<< 1, 2, 3 >>),
     NoValue, [NoValue EXCEPT !.t = "chan"]}

\* json.Marshal of a Go value
EncodeValue(g) ==
    CASE g.t = "int" -> JNum(g.n)
      [] g.t = "string" -> JStr(g.s)
      [] g.t = "[]int" -> JArr([i \in 1 .. Len(g.a) |-> JNum(g.a[i])])
      [] g.t = "nil" -> JNull
      [] OTHER -> JUnsupported

\* The Operator constants, by name.
Operators ==
    {"OpEq", "OpNotEq", "OpIn", "OpNotIn", "OpLt", "OpLte", "OpGt", "OpGte",
     "OpGlob", "OpNotGlob", "OpIGlob", "OpNotIGlob"}

\* The string each Operator constant is defined as
OperatorString(op) ==
    CASE op = "OpEq" -> "Eq"
      [] op = "OpNotEq" -> "NotEq"
      [] op = "OpIn" -> "In"
      [] op = "OpNotIn" -> "NotIn"
      [] op = "OpLt" -> "Lt"
      [] op = "OpLte" -> "Lte"
      [] op = "OpGt" -> "Gt"
      [] op = "OpGte" -> "Gte"
      [] op = "OpGlob" -> "Glob"
      [] op = "OpNotGlob" -> "NotGlob"
      [] op = "OpIGlob" -> "IGlob"
      [] op = "OpNotIGlob" -> "NotIGlob"

\* Fault of the Operator type: an integer enumeration, encoded as a number.
EncodeOperator_asNumber(op) ==
    JNum(Cardinality({o \in Operators : OperatorString(o) = OperatorString(op)}))

\* json.Marshal of an Operator: the JSON string of its value
EncodeOperator(op) == JStr(OperatorString(op))

\* Values of the interface type Filter.  type is
\*   "nil"                       the nil interface
\*   "nilBase", "nilAnd", "nilOr"  a nil *BaseFilter, *AndFilter, *OrFilter
\*   "Base", "And", "Or"         a pointer to a filter
NilFilter ==
    [type |-> "nil", attr |-> "", op |-> "", value |-> NoValue,
     filters |-> << >>]

NilPointer(type) == [NilFilter EXCEPT !.type = type]

NilPointers == {NilPointer(type) : type \in {"nilBase", "nilAnd", "nilOr"}}

BaseFilter(attr, op, value) ==
    [type |-> "Base", attr |-> attr, op |-> op, value |-> value,
     filters |-> << >>]

AndFilter(filters) == [NilFilter EXCEPT !.type = "And", !.filters = filters]

OrFilter(filters) == [NilFilter EXCEPT !.type = "Or", !.filters = filters]

IsCompound(f) == f.type \in {"And", "Or"}

\* The outcome of a call that may panic with a nil pointer dereference.
Panicked == [panic |-> TRUE, json |-> JNull]

Returned(j) == [panic |-> FALSE, json |-> j]

RECURSIVE SerializeFilter(_)
RECURSIVE SerializeChildren_textNested(_)
RECURSIVE SerializeChildren_reversed(_)
RECURSIVE SerializeChildren(_)

\* Faults of the loop over the children: a compound child is put in as the
\* text of its encoding, a JSON string; the children are collected in
\* reverse order.
SerializeChildren_textNested(fs) ==
    IF fs = << >> THEN [panic |-> FALSE, items |-> << >>]
    ELSE LET rest == SerializeChildren_textNested(Tail(fs))
         IN  IF Head(fs).type = "nil" THEN rest
             ELSE LET x == SerializeFilter(Head(fs))
                      item == IF IsCompound(Head(fs)) THEN JStr("[...]")
                              ELSE x.json
                  IN  [panic |-> x.panic \/ rest.panic,
                       items |-> << item >> \o rest.items]

SerializeChildren_reversed(fs) ==
    IF fs = << >> THEN [panic |-> FALSE, items |-> << >>]
    ELSE LET rest == SerializeChildren_reversed(Tail(fs))
         IN  IF Head(fs).type = "nil" THEN rest
             ELSE LET x == SerializeFilter(Head(fs))
                  IN  [panic |-> x.panic \/ rest.panic,
                       items |-> rest.items \o << x.json >>]

\* AndFilter / OrFilter.tpuf_SerializeFilter: the loop over the children.
\* "filter == nil" holds for the nil interface only; on any other child the
\* method is called.
SerializeChildren(fs) ==
    IF fs = << >> THEN [panic |-> FALSE, items |-> << >>]
    ELSE LET rest == SerializeChildren(Tail(fs))
         IN  IF Head(fs).type = "nil" THEN rest
             ELSE LET x == SerializeFilter(Head(fs))
                  IN  [panic |-> x.panic \/ rest.panic,
                       items |-> << x.json >> \o rest.items]

\* tpuf_SerializeFilter called through a non-nil interface value, with the
\* value it returns already in its JSON form.  Called on a nil pointer, each
\* of the three methods reads a field of its receiver and panics.
SerializeFilter(f) ==
    CASE f.type = "Base" ->
            Returned(JArr(<< JStr(f.attr), EncodeOperator(f.op),
                             EncodeValue(f.value) >>))
      [] f.type = "And" ->
            LET c == SerializeChildren(f.filters)
            IN  [panic |-> c.panic,
                 json |-> JArr(<< JStr("And"), JArr(c.items) >>)]
      [] f.type = "Or" ->
            LET c == SerializeChildren(f.filters)
            IN  [panic |-> c.panic,
                 json |-> JArr(<< JStr("Or"), JArr(c.items) >>)]
      [] OTHER -> Panicked

RECURSIVE HasUnsupported(_)
\* json.Marshal fails: some value in j has no encoding
HasUnsupported(j) ==
    \/ j.t = "unsupported"
    \/ /\ j.t = "array"
       /\ \E i \in 1 .. Len(j.a) : HasUnsupported(j.a[i])

\* Fault of the encoding of a nil pointer: it is not taken as absent, the
\* serializing method is called on it.
Marshal_noNilCheck(f) ==
    IF f.type = "nil"
    THEN [panic |-> FALSE, err |-> FALSE, bytes |-> JNull]
    ELSE LET s == SerializeFilter(f)
         IN  [panic |-> s.panic,
              err |-> ~s.panic /\ HasUnsupported(s.json),
              bytes |-> IF s.panic \/ HasUnsupported(s.json)
                        THEN JNull ELSE s.json]

\* json.Marshal(f) for f of type Filter: null for the nil interface and for
\* a nil pointer, else MarshalJSON, which marshals what tpuf_SerializeFilter
\* returns
Marshal(f) ==
    IF f.type = "nil" \/ f \in NilPointers
    THEN [panic |-> FALSE, err |-> FALSE, bytes |-> JNull]
    ELSE LET s == SerializeFilter(f)
         IN  [panic |-> s.panic,
              err |-> ~s.panic /\ HasUnsupported(s.json),
              bytes |-> IF s.panic \/ HasUnsupported(s.json)
                        THEN JNull ELSE s.json]

----------------------------------------------------------------------------
\* The text json.Marshal writes, as its sequence of tokens.  A JSON string
\* is the three tokens quote, content, quote.

RECURSIVE RenderItems(_)
RECURSIVE Render(_)

\* The elements of an array, separated by commas
RenderItems(items) ==
    IF items = << >> THEN << >>
    ELSE IF Len(items) = 1 THEN Render(items[1])
    ELSE Render(items[1]) \o << "," >> \o RenderItems(Tail(items))

Render(j) ==
    CASE j.t = "null" -> << "null" >>
      [] j.t = "number" -> << ToString(j.n) >>
      [] j.t = "string" -> << "\"", j.s, "\"" >>
      [] j.t = "array" -> << "[" >> \o RenderItems(j.a) \o << "]" >>

\* The result of json.Marshal, as text
NoBytes == [panic |-> FALSE, err |-> FALSE, bytes |-> << >>]

\* json.Marshal(f) for f of type Filter, as text.  encoding/json writes the
\* bytes MarshalJSON returned.
MarshalText(f) ==
    LET m == Marshal(f)
    IN  [panic |-> m.panic, err |-> m.err,
         bytes |-> IF m.panic \/ m.err THEN << >> ELSE Render(m.bytes)]

\* Fields of the request structs.  kind is the Go type of the field.
IntField(key, omitempty, n) ==
    [key |-> key, omitempty |-> omitempty, kind |-> "int", n |-> n,
     f |-> NilFilter]

FilterField(key, omitempty, f) ==
    [key |-> key, omitempty |-> omitempty, kind |-> "Filter", n |-> 0,
     f |-> f]

\* A field of type [][]float32 holding n vectors [1]
VectorsField(key, omitempty, n) ==
    [key |-> key, omitempty |-> omitempty, kind |-> "[][]float32", n |-> n,
     f |-> NilFilter]

\* The request structs with a field of type Filter, each as its fields in
\* the order of declaration.  The fields of QueryRequest other than TopK
\* and Filters are left at their zero values.
DeleteByFilterRequest(f) == << FilterField("delete_by_filter", FALSE, f) >>

QueryRequest(topK, f) ==
    << IntField("top_k", TRUE, topK), FilterField("filters", TRUE, f) >>

RecallRequest(num, topK, f, queries) ==
    << IntField("num", TRUE, num), IntField("top_k", TRUE, topK),
       FilterField("filters", TRUE, f),
       VectorsField("queries", TRUE, queries) >>

\* encoding/json isEmptyValue: zero for an int, length zero for a slice, the
\* nil interface for an interface; an interface that holds a nil pointer is
\* not empty.
isEmptyValue(field) ==
    CASE field.kind = "int" -> field.n = 0
      [] field.kind = "[][]float32" -> field.n = 0
      [] field.kind = "Filter" -> field.f.type = "nil"

\* The fields the struct encoder writes
Omitted(field) == field.omitempty /\ isEmptyValue(field)

RECURSIVE RenderVectors(_)
RenderVectors(n) ==
    IF n = 0 THEN << >>
    ELSE IF n = 1 THEN << "[", "1", "]" >>
    ELSE << "[", "1", "]", "," >> \o RenderVectors(n - 1)

\* Fault of the struct encoder: the field of type Filter is encoded by its
\* exported Go fields, not through MarshalJSON.
EncodeFieldValue_reflect(field) ==
    CASE field.kind = "int" ->
            [NoBytes EXCEPT !.bytes = << ToString(field.n) >>]
      [] field.kind = "[][]float32" ->
            [NoBytes EXCEPT
                !.bytes = << "[" >> \o RenderVectors(field.n) \o << "]" >>]
      [] field.kind = "Filter" ->
            [NoBytes EXCEPT
                !.bytes = IF field.f.type = "Base"
                          THEN << "{", "\"", "Attribute", "\"", ":", "\"",
                                  field.f.attr, "\"", "}" >>
                          ELSE << "{", "\"", "Filters", "\"", ":", "[", "]",
                                  "}" >>]

\* The encoder of one field's value.  A Filter field goes through the
\* interface encoder to the Marshaler encoder, as json.Marshal(f) does.
EncodeFieldValue(field) ==
    CASE field.kind = "int" ->
            [NoBytes EXCEPT !.bytes = << ToString(field.n) >>]
      [] field.kind = "[][]float32" ->
            [NoBytes EXCEPT
                !.bytes = << "[" >> \o RenderVectors(field.n) \o << "]" >>]
      [] field.kind = "Filter" -> MarshalText(field.f)

RECURSIVE EncodeFields(_, _)
\* The struct encoder's loop: "," before every field but the first written,
\* then the quoted key, ":", and the value.
EncodeFields(fields, first) ==
    IF fields = << >> THEN NoBytes
    ELSE IF Omitted(Head(fields)) THEN EncodeFields(Tail(fields), first)
    ELSE LET v == EncodeFieldValue(Head(fields))
             rest == EncodeFields(Tail(fields), FALSE)
             sep == IF first THEN << >> ELSE << "," >>
         IN  [panic |-> v.panic \/ rest.panic,
              err |-> v.err \/ rest.err,
              bytes |-> sep \o << "\"", Head(fields).key, "\"", ":" >>
                            \o v.bytes \o rest.bytes]

\* json.Marshal(request) for a pointer to one of the request structs
MarshalStruct(fields) ==
    LET e == EncodeFields(fields, TRUE)
    IN  IF e.panic THEN [NoBytes EXCEPT !.panic = TRUE]
        ELSE IF e.err THEN [NoBytes EXCEPT !.err = TRUE]
        ELSE [NoBytes EXCEPT !.bytes = << "{" >> \o e.bytes \o << "}" >>]

\* Most vectors in RecallRequest.Queries
MaxQueries == 1

\* TopK of the tests
TopKs == {0, 2}

\* The requests that can hold the filter f
RequestsWith(f) ==
    {DeleteByFilterRequest(f)}
        \cup {QueryRequest(k, f) : k \in TopKs}
        \cup {RecallRequest(0, k, f, q) : k \in TopKs, q \in 0 .. MaxQueries}
\* The filters handed to json.Marshal.

\* Most children of a compound filter.
FltMaxChildren == 2

SeqsUpTo(S, n) == UNION {[1 .. k -> S] : k \in 0 .. n}

Compounds(children) ==
    {AndFilter(fs) : fs \in children} \cup {OrFilter(fs) : fs \in children}

\* Every leaf over one attribute.
Leaves == {BaseFilter("attr", op, g) : op \in Operators, g \in GoValues}

LeafA == BaseFilter("attr1", "OpEq", GoString("value1"))

LeafB == BaseFilter("ids", "OpIn", GoInts(<< 1, 2, 3 >>))

\* Children of the compound filters: two leaves, the nil interface and nil
\* pointers.
Children1 == {LeafA, LeafB, NilFilter} \cup NilPointers

Children2 == {LeafA, LeafB, NilFilter, NilPointer("nilBase")}

\* Compound filters of leaves; compound filters with compound children;
\* and one level more.
Level1 == Compounds(SeqsUpTo(Children1, FltMaxChildren))

Level2 ==
    Compounds(SeqsUpTo(Children2 \cup Compounds(SeqsUpTo(Children2, 1)),
                       FltMaxChildren))

Level3 == Compounds({<< f >> : f \in Level2})

FilterInputs ==
    {NilFilter} \cup NilPointers \cup Leaves \cup Level1 \cup Level2
        \cup Level3

NoMarshal == [panic |-> FALSE, err |-> FALSE, bytes |-> JNull]

\* What a serialization leaves in the tree it was given.  The three
\* tpuf_SerializeFilter assign to no field of their receiver, and a compound
\* filter collects its children in a slice of its own.
TreeAfter_compactsInPlace(f) ==
    IF IsCompound(f)
    THEN [f EXCEPT !.filters = SelectSeq(f.filters,
                                         LAMBDA c : c.type # "nil")]
    ELSE f

TreeAfter(f) == f

InitFlt ==
    /\ BaseIdle
    /\ par = ParIdle
    /\ flt \in [phase : {"input"}, filter : FilterInputs, out : {NoMarshal},
                again : {NoMarshal}, request : {<< >>}, emb : {NoBytes}]

\* json.Marshal(filter)
MarshalFilter ==
    /\ flt.phase = "input"
    /\ flt' = [flt EXCEPT !.phase = "output",
                          !.filter = TreeAfter(flt.filter),
                          !.out = Marshal(flt.filter)]
    /\ UNCHANGED callVars
    /\ UNCHANGED << once, gz, par, ups >>

\* json.Marshal(filter) once more, on the same tree
MarshalAgain ==
    /\ flt.phase = "output"
    /\ flt' = [flt EXCEPT !.phase = "again",
                          !.filter = TreeAfter(flt.filter),
                          !.again = Marshal(flt.filter)]
    /\ UNCHANGED callVars
    /\ UNCHANGED << once, gz, par, ups >>

\* json.Marshal(request) in DeleteByFilter, Query or Recall, the filter
\* being a field of the request
MarshalRequest ==
    /\ flt.phase = "output"
    /\ \E request \in RequestsWith(flt.filter) :
           flt' = [flt EXCEPT !.phase = "embedded",
                              !.request = request,
                              !.emb = MarshalStruct(request)]
    /\ UNCHANGED callVars
    /\ UNCHANGED << once, gz, par, ups >>

NextFlt == MarshalFilter \/ MarshalAgain \/ MarshalRequest

SpecFlt == InitFlt /\ [][NextFlt]_vars

----------------------------------------------------------------------------
\* The operations that marshal a request and post it: Upsert and Delete
\* (src/upsert.go, src/delete.go: both through Client.upsert) and
\* DeleteByFilter.  post is one call of Client.do, the call of Spec.

\* A nil *Upsert
NilUpsert == [nil |-> TRUE, id |-> "", vector |-> << >>, attributes |-> "none"]

\* &Upsert{ID: id, Vector: vector, Attributes: attributes}.  The components
\* of a vector are integers; attributes is "none" (nil), "map" or "chan" (a
\* value json.Marshal has no encoding for).
UpsertOf(id, vector, attributes) ==
    [nil |-> FALSE, id |-> id, vector |-> vector, attributes |-> attributes]

\* The entries of the requests: with a vector, without, with attributes
\* that cannot be marshalled, with an empty vector and attributes, nil.
UpsertEntries ==
    {UpsertOf("1", << 1, 1 >>, "none"),
     UpsertOf("1", << >>, "none"),
     UpsertOf("2", << 2 >>, "chan"),
     UpsertOf("3", << >>, "map"),
     NilUpsert}

\* Most entries of UpsertRequest.Upserts, most ids given to Delete
UpsMaxEntries == 2

\* Delete: one &Upsert{ID: id} per id
RECURSIVE DeleteUpserts(_)
DeleteUpserts(ids) ==
    IF ids = << >> THEN << >>
    ELSE << UpsertOf(Head(ids), << >>, "none") >> \o DeleteUpserts(Tail(ids))

RECURSIVE Validate(_)
\* The loop of Client.upsert when allowDelete is false: the first entry
\* with len(upsert.Vector) == 0 ends the call; reading the Vector of a nil
\* entry panics.
Validate(upserts) ==
    IF upserts = << >> THEN "ok"
    ELSE IF Head(upserts).nil THEN "panic"
    ELSE IF Len(Head(upserts).vector) = 0 THEN "deletion"
    ELSE Validate(Tail(upserts))

RECURSIVE RenderNumbers(_)
RenderNumbers(ns) ==
    IF ns = << >> THEN << >>
    ELSE IF Len(ns) = 1 THEN << ToString(ns[1]) >>
    ELSE << ToString(ns[1]), "," >> \o RenderNumbers(Tail(ns))

\* json.Marshal of one *Upsert: id always, vector and attributes unless
\* empty
RenderUpsert(u) ==
    IF u.nil THEN << "null" >>
    ELSE << "{", "\"", "id", "\"", ":", "\"", u.id, "\"" >>
         \o (IF Len(u.vector) = 0 THEN << >>
             ELSE << ",", "\"", "vector", "\"", ":", "[" >>
                  \o RenderNumbers(u.vector) \o << "]" >>)
         \o (IF u.attributes = "none" THEN << >>
             ELSE << ",", "\"", "attributes", "\"", ":", "{", "}" >>)
         \o << "}" >>

RECURSIVE RenderUpserts(_)
RenderUpserts(upserts) ==
    IF upserts = << >> THEN << >>
    ELSE IF Len(upserts) = 1 THEN RenderUpsert(upserts[1])
    ELSE RenderUpsert(upserts[1]) \o << "," >> \o RenderUpserts(Tail(upserts))

\* json.Marshal(request) for an *UpsertRequest with only Upserts set
MarshalUpsertRequest(upserts) ==
    IF \E i \in 1 .. Len(upserts) :
           ~upserts[i].nil /\ upserts[i].attributes = "chan"
    THEN [NoBytes EXCEPT !.err = TRUE]
    ELSE IF upserts = << >> THEN [NoBytes EXCEPT !.bytes = << "{", "}" >>]
    ELSE [NoBytes EXCEPT
            !.bytes = << "{", "\"", "upserts", "\"", ":", "[" >>
                          \o RenderUpserts(upserts) \o << "]", "}" >>]

\* The errors of the three operations, by the text they start with; cause
\* is the error wrapped with %w.
NoError == [kind |-> "nil", cause |-> Nil]

DeletionError ==
    [kind |-> "deletion must be performed using Delete, not Upsert to avoid accidental deletion",
     cause |-> Nil]

MarshalError == [kind |-> "failed to marshal request", cause |-> Nil]

PostError(op, cause) ==
    [kind |-> IF op = "DeleteByFilter" THEN "failed to delete by filter"
              ELSE "failed to upsert documents",
     cause |-> cause]

\* Fault of Client.upsert: the request is posted before it is checked.
ChecksBeforePost_no(op) == FALSE

\* Client.upsert checks the entries before anything else when allowDelete
\* is false, which is so for Upsert and not for Delete.
ChecksBeforePost(op) == op = "Upsert"

\* What the operation does at its call of json.Marshal, v being what the
\* check of the entries found and m what json.Marshal returns: it returns
\* an error, or has the body to post.
PrepareOutcome(v, m) ==
    IF v = "panic" \/ (v = "ok" /\ m.panic)
    THEN [panic |-> TRUE, posts |-> FALSE, err |-> NoError, body |-> << >>]
    ELSE IF v = "deletion"
    THEN [panic |-> FALSE, posts |-> FALSE, err |-> DeletionError,
          body |-> << >>]
    ELSE IF m.err
    THEN [panic |-> FALSE, posts |-> FALSE, err |-> MarshalError,
          body |-> << >>]
    ELSE [panic |-> FALSE, posts |-> TRUE, err |-> NoError, body |-> m.bytes]

\* The operation up to its call of c.post
Prepare(op, upserts, filter) ==
    PrepareOutcome(IF ChecksBeforePost(op) THEN Validate(upserts) ELSE "ok",
                   IF op = "DeleteByFilter"
                   THEN MarshalStruct(DeleteByFilterRequest(filter))
                   ELSE MarshalUpsertRequest(upserts))

\* The retries of the Client of these calls when retries are not disabled
UpsMaxRetries == 1

UpsFilters ==
    {NilFilter, LeafA, BaseFilter("attr", "OpEq", [NoValue EXCEPT !.t = "chan"]),
     AndFilter(<< LeafA, NilPointer("nilBase") >>)}

UpsCalls ==
    [op : {"Upsert"}, upserts : SeqsUpTo(UpsertEntries, UpsMaxEntries),
     filter : {NilFilter}]
        \cup [op : {"Delete"},
              upserts : {DeleteUpserts(ids) :
                            ids \in SeqsUpTo({"1", "2"}, UpsMaxEntries)},
              filter : {NilFilter}]
        \cup [op : {"DeleteByFilter"}, upserts : {<< >>}, filter : UpsFilters]

InitUps ==
    /\ cfg \in [MaxRetries : {UpsMaxRetries}, DisableRetry : BOOLEAN,
                urlParses : {TRUE}]
    /\ pc = "start"
    /\ attempts = 0
    /\ numTries = 0
    /\ currentInterval = InitialInterval
    /\ elapsed = 0
    /\ timerStarts = 0
    /\ timerDuration = 0
    /\ resp = NoResponse
    /\ err = Nil
    /\ ret = NoResult
    /\ stop = "none"
    /\ failsHttp = 0
    /\ cancelledAt = -1
    /\ once = OnceIdle
    /\ gz = GzIdle
    /\ par = ParIdle
    /\ flt = FltIdle
    /\ ups \in [phase : {"input"}, call : UpsCalls, panic : {FALSE},
                body : {<< >>}, err : {NoError}]

\* Upsert, Delete or DeleteByFilter up to the call of c.post
UpsPrepare ==
    /\ ups.phase = "input"
    /\ \E p \in {Prepare(ups.call.op, ups.call.upserts, ups.call.filter)} :
           ups' = [ups EXCEPT !.phase = IF p.posts THEN "posting" ELSE "done",
                              !.panic = p.panic,
                              !.body = p.body,
                              !.err = p.err]
    /\ UNCHANGED callVars
    /\ UNCHANGED << once, gz, par, flt >>

\* c.post(ctx, path, reqJson): the steps of Client.do
UpsBegin == ups.phase = "posting" /\ Begin

UpsAttempt == ups.phase = "posting" /\ Attempt

UpsTimerFires == ups.phase = "posting" /\ TimerFires

\* c.post has returned: nil, or its error wrapped
UpsReturn ==
    /\ ups.phase = "posting"
    /\ pc = "done"
    /\ ups' = [ups EXCEPT !.phase = "done",
                          !.err = IF ret.err = Nil THEN NoError
                                  ELSE PostError(ups.call.op, ret.err)]
    /\ UNCHANGED callVars
    /\ UNCHANGED << once, gz, par, flt >>

NextUps == UpsPrepare \/ UpsBegin \/ UpsAttempt \/ UpsTimerFires \/ UpsReturn

SpecUps == InitUps /\ [][NextUps]_vars
----------------------------------------------------------------------------
\* Vocabulary of the properties.

Done == pc = "done"

\* The call got as far as the retry loop, with retries not disabled.
Retrying == cfg.urlParses /\ ~cfg.DisableRetry

\* Every attempt made so far ended in a response with a retriable status.
AllFailedRetriably == attempts >= 1 /\ failsHttp = attempts

\* The back-off's elapsed-time cap ended the call.
CapHit == stop = "elapsed"

----------------------------------------------------------------------------
----------------------------------------------------------------------------
----------------------------------------------------------------------------
\* C3: when the retry loop gives up (retry count spent, or elapsed-time cap),
\* the error returned is the error of the last attempt itself, unwrapped,
\* and an attempt's error never becomes a nil result.
C3_LastErrorVerbatim ==
    Done =>
        /\ (stop \in {"maxTries", "elapsed"})
           => (/\ ret.err = err
               /\ ret.err # Nil
               /\ ret.err.attempt = attempts
               /\ ~ret.err.permanent)
        /\ (attempts >= 1 /\ err # Nil) => ret.err # Nil

C3_Witness ==
    /\ Done /\ stop = "maxTries" /\ cfg.MaxRetries = 2 /\ attempts = 3
    /\ ret.err.attempt = 3 /\ ret.err.kind = "decode"

----------------------------------------------------------------------------
\* C4: an attempt that receives a non-200 status that is not retriable ends
\* the call with that attempt's failure: no wait follows it and no further
\* attempt, whatever MaxRetries is and however many retries were left.
C4_PermanentShortCircuit ==
    (/\ attempts >= 1
     /\ resp.kind = "http"
     /\ resp.status # 200
     /\ ~(resp.status >= 500 \/ resp.status \in {408, 429, 202}))
    => /\ Done
       /\ stop = "permanent"
       /\ ret.err # Nil
       /\ ret.err.attempt = attempts
       /\ ret.err = [err EXCEPT !.permanent = FALSE]
       /\ timerStarts = attempts - 1

C4_Witness ==
    /\ Done /\ resp.status = 404 /\ cfg.MaxRetries = 3 /\ ~cfg.DisableRetry
    /\ attempts = 2 /\ numTries = 1 /\ ret.err.kind = "api"

----------------------------------------------------------------------------
\* C5: with DisableRetry set the Timer is never started and the call makes
\* one attempt, whatever MaxRetries is and however that attempt ends.
C5_RetryDisabled ==
    cfg.DisableRetry =>
        /\ timerStarts = 0
        /\ attempts <= 1
        /\ (attempts = 1) => Done
        /\ (Done /\ cfg.urlParses) => attempts = 1

C5_Witness ==
    /\ Done /\ cfg.DisableRetry /\ cfg.MaxRetries = 3
    /\ attempts = 1 /\ resp.status = 500 /\ ret.err # Nil

----------------------------------------------------------------------------
\* C6 (as stated): with MaxRetries = 0 a call makes one attempt and never
\* waits on the Timer.
C6_ZeroDisablesAsStated ==
    cfg.MaxRetries = 0 => (attempts <= 1 /\ timerStarts = 0)

\* C6 (amended): MaxRetries = 0 selects the default budget, it does not
\* disable retrying: with DisableRetry unset, a first attempt that fails
\* without being permanent is followed by a wait on the Timer (unless the
\* elapsed-time cap is reached); only DisableRetry gives one attempt and no
\* wait.
C6_ZeroMeansDefault ==
    cfg.MaxRetries = 0 =>
        /\ (/\ ~cfg.DisableRetry
            /\ attempts = 1
            /\ err # Nil /\ ~err.permanent
            /\ ~CapHit)
           => (~Done /\ timerStarts = 1 /\ numTries = 1)
        /\ cfg.DisableRetry => (attempts <= 1 /\ timerStarts = 0)

C6_Witness ==
    /\ cfg.MaxRetries = 0 /\ ~cfg.DisableRetry
    /\ pc = "waiting" /\ attempts = 1 /\ timerStarts = 1
    /\ resp.status = 500

----------------------------------------------------------------------------
----------------------------------------------------------------------------
\* C8: for every status code other than 200, doOnce leaves the failure
\* retriable exactly when the code is >= 500 or one of 408, 429, 202, and
\* marks it permanent for every other code.
C8_StatusClassification ==
    (/\ once.phase = "output"
     /\ once.resp.kind = "http"
     /\ once.resp.status # 200)
    => /\ once.out.err # Nil
       /\ once.out.err.permanent <=>
              ~(\/ once.resp.status >= 500
                \/ once.resp.status \in {408, 429, 202})

C8_Witness ==
    /\ once.phase = "output"
    /\ once.resp.status = 202
    /\ once.out.err.kind = "api"
    /\ ~once.out.err.permanent

----------------------------------------------------------------------------
\* C9: an attempt that receives a status other than 200 returns a non-nil
\* error and no bytes, whatever the body is, a body {"status":"OK"} included.
C9_StatusAuthoritative ==
    (/\ once.phase = "output"
     /\ once.resp.kind = "http"
     /\ once.resp.status # 200)
    => /\ once.out.err.kind # "nil"
       /\ once.out.bytes = "nil"
       /\ (once.out.err.kind = "api") => once.out.err.http = once.resp.status

C9_Witness ==
    /\ once.phase = "output"
    /\ once.resp.status = 500
    /\ once.resp.body = "envOK"
    /\ once.out.err.kind = "api"
    /\ once.out.err.status = "OK"

----------------------------------------------------------------------------
\* C10 (as stated): a call returns success only if its final attempt received
\* HTTP 200 with an envelope whose status is "OK", and a 200 response whose
\* envelope status is not "OK" or that carries an error message is returned
\* as an ApiError with the envelope's status and message and HTTP status 200.
C10_OnlySuccessShapeAsStated ==
    (Done /\ attempts >= 1) =>
        /\ ret.err = Nil =>
              (/\ resp.kind = "http" /\ resp.status = 200
               /\ EnvStatus(resp.body) = "OK")
        /\ (/\ resp.kind = "http" /\ resp.status = 200
            /\ Unmarshals(resp.body)
            /\ (EnvStatus(resp.body) # "OK" \/ EnvErr(resp.body) # ""))
           => (/\ ret.err.kind = "api"
               /\ ret.err.status = EnvStatus(resp.body)
               /\ ret.err.msg = EnvErr(resp.body)
               /\ ret.err.http = 200)

\* C10 (amended): HTTP 200 is the only success shape, and the envelope of a
\* 200 response is not inspected: a call returns success exactly when its
\* final attempt received HTTP 200 and the body was read without error,
\* whatever the body holds, and it returns that body; an ApiError is returned
\* for non-200 responses only and holds the envelope's status and message
\* and the status code of the final response.
C10_OnlySuccessShape ==
    /\ (Done /\ attempts >= 1) =>
          (ret.err = Nil <=>
              (resp.kind = "http" /\ resp.status = 200 /\ Readable(resp.body)))
    /\ (Done /\ attempts >= 1 /\ ret.err = Nil) => ret.bytes = resp.body
    /\ (attempts >= 1 /\ resp.kind = "http" /\ resp.status = 200
        /\ Readable(resp.body)) => Done
    /\ (Done /\ ret.err.kind = "api") =>
          (/\ ret.err.http # 200
           /\ ret.err.http = resp.status
           /\ ret.err.status = EnvStatus(resp.body)
           /\ ret.err.msg = EnvErr(resp.body))

C10_Witness ==
    /\ Done /\ ret.err = Nil
    /\ resp.status = 200 /\ resp.body = "envError"
    /\ ret.bytes = "envError"

----------------------------------------------------------------------------
\* C11 (as stated): an envelope decode failure is never retried: the call
\* returns the decode error after the attempt whose body could not be
\* parsed, whatever the status of the response and whatever budget remains.
C11_DecodeNeverRetriedAsStated ==
    (attempts >= 1 /\ err.kind = "decode") =>
        /\ Done
        /\ ret.err = Unwrap(err)

\* C11 (amended): a decode failure is classified by the status of its
\* response like any other failure.  On a status that is not retriable it is
\* permanent and ends the call with the decode error; on a retriable status
\* (5xx, 408, 429, 202) it is retried, and the call ends on it only when the
\* retry budget or the back-off's elapsed-time cap is spent, returning the
\* decode error of the last attempt.
C11_DecodeRetriedByStatus ==
    (attempts >= 1 /\ err.kind = "decode") =>
        /\ err.permanent <=> ~isRetriable(resp.status)
        /\ ~isRetriable(resp.status) =>
               /\ Done
               /\ stop = "permanent"
               /\ ret.err = Unwrap(err)
        /\ (isRetriable(resp.status) /\ Done) =>
               /\ stop \in {"maxTries", "elapsed"}
               /\ ret.err = err
               /\ ret.err.attempt = attempts
        /\ (/\ isRetriable(resp.status)
            /\ ~TriesExhausted(ToUint64(maxRetries(cfg)), numTries)
            /\ ~CapHit) => ~Done

\* A decode failure on a 500 response was followed by a wait, and a later
\* attempt failed to decode again.
C11_Witness ==
    /\ attempts >= 2
    /\ err.kind = "decode"
    /\ resp.status = 500
    /\ pc = "waiting"

----------------------------------------------------------------------------
\* C12: for every non-200 response whose body is empty or not JSON, doOnce
\* returns a decode error, not an ApiError and not success, that carries the
\* raw body and the HTTP status code of that response.
C12_DecodeFailureSurfacing ==
    (/\ once.phase = "output"
     /\ once.resp.kind = "http"
     /\ once.resp.status # StatusOK
     /\ once.resp.body \in {"empty", "html"}) =>
        /\ once.out.err # Nil
        /\ once.out.err.kind = "decode"
        /\ once.out.err.raw = once.resp.body
        /\ once.out.err.http = once.resp.status
        /\ once.out.bytes = "nil"

\* doOnce has answered a 404 whose body is an HTML page.
C12_Witness ==
    /\ once.phase = "output"
    /\ once.resp.status = 404
    /\ once.resp.body = "html"
    /\ once.out.err.kind = "decode"

----------------------------------------------------------------------------
\* The context of the call is live.
NotCancelled == cancelledAt = -1

\* The last attempt got an error and no response from the HTTP client.
LastFailedInTransport == attempts >= 1 /\ resp.kind = "transport"

----------------------------------------------------------------------------
\* C14: if the context of the call is cancelled while the call waits
\* between two attempts, the retry loop stops without starting another
\* attempt: from a state where the call is waiting and the context was
\* cancelled during this wait (cancelledAt = attempts), no step takes the
\* loop to a further run of the operation.
C14_CancelDuringBackoff ==
    [][(pc = "waiting" /\ cancelledAt = attempts) => pc' # "attempting"]_vars

----------------------------------------------------------------------------
\* C15: once the context of the call is cancelled, a transport failure of
\* an attempt ends the call at once: after an attempt made under the
\* cancelled context has failed in transport the call has returned, with no
\* wait started and no further attempt due.
C15_CancelTerminal ==
    (/\ cancelledAt >= 0
     /\ attempts > cancelledAt
     /\ resp.kind = "transport") => Done

----------------------------------------------------------------------------
\* Vocabulary of the properties of the gzip revision.

\* The attempts made so far, by their position in gz.sent.
SentIndexes == 1 .. Len(gz.sent)

\* The bytes the caller asked to send: none for a nil reader.
CallerBytes == IF gz.call.body.state = "nil" THEN NilBody
               ELSE Plain(gz.call.body.data)

\* What the server gets out of a request: the body, gunzipped when the
\* request says that it is gzip.
Payload(req) ==
    IF req.header.ContentEncoding = "gzip"
    THEN Gunzip(req.body).bytes
    ELSE req.body

\* C16: every attempt of one call sends the same method, the same URL (base
\* URL, path and encoded query) and the same body bytes as the first one;
\* the caller's reader is read once per call, and no attempt sends an empty
\* or shortened body in place of the caller's bytes.
C16_SameRequestEveryAttempt ==
    /\ gz.reads = (IF gz.call.body.state = "nil" \/ gz.pc = "start"
                   THEN 0 ELSE 1)
    /\ \A i \in SentIndexes :
        /\ gz.sent[i].method = gz.call.method
        /\ gz.sent[i].url = RequestUrl(gz.call.path, gz.call.values)
        /\ gz.sent[i] = gz.sent[1]
        /\ Payload(gz.sent[i]) = CallerBytes

\* A POST with a body has been sent three times.
C16_Witness ==
    /\ Len(gz.sent) = 3
    /\ gz.call.method = "POST"
    /\ gz.call.body.data = "{k:v}"
    /\ gz.reader.state = "drained"
    /\ Payload(gz.sent[3]) = Plain("{k:v}")

----------------------------------------------------------------------------
\* C17: with compression enabled every attempt carries Accept-Encoding:
\* gzip, and Content-Encoding: gzip exactly when the call has a request body
\* (a reader was passed); with compression disabled neither header is set
\* and the body is sent as the caller gave it.
C17_GzipHeaders ==
    \A i \in SentIndexes :
        IF gz.client.UseGzipEncoding
        THEN /\ gz.sent[i].header.AcceptEncoding = "gzip"
             /\ gz.sent[i].header.ContentEncoding = "gzip"
                    <=> gz.call.body.state # "nil"
        ELSE /\ gz.sent[i].header.AcceptEncoding = ""
             /\ gz.sent[i].header.ContentEncoding = ""
             /\ gz.sent[i].body = CallerBytes

\* With compression enabled, a retry of a GET went out without
\* Content-Encoding.
C17_Witness ==
    /\ gz.client.UseGzipEncoding
    /\ gz.call.method = "GET"
    /\ Len(gz.sent) = 2
    /\ gz.sent[2].header.AcceptEncoding = "gzip"
    /\ gz.sent[2].header.ContentEncoding = ""

----------------------------------------------------------------------------
----------------------------------------------------------------------------
\* The last attempt was answered by a response that declares gzip and
\* whose body is a gzip stream.
GzipAnswered ==
    /\ Len(gz.sent) >= 1
    /\ gz.resp.kind = "http"
    /\ gz.resp.contentEncoding = "gzip"
    /\ IsGzipStream(gz.resp.body)

\* The response was classified and returned by its decompressed body: a
\* non-200 gives the error of the decompressed envelope, a 200 gives the
\* caller the decompressed bytes.
ClassifiedDecompressed ==
    LET plain == GunzipOf(gz.resp.body)
    IN  IF gz.resp.status # StatusOK
        THEN Unwrap(gz.err) = toApiError(gz.resp.status, plain, Len(gz.sent))
        ELSE /\ gz.err = Nil
             /\ gz.pc = "done"
             /\ gz.ret.resp.body = plain

\* C19 (as stated): a response that declares Content-Encoding: gzip is
\* decompressed before it is classified and before it is returned.
C19_ResponseDecompressedAsStated ==
    GzipAnswered => ClassifiedDecompressed

\* C19 (amended): with compression enabled, a response that declares
\* Content-Encoding: gzip and whose body opens as a gzip stream is
\* decompressed before it is classified and returned; one whose body does
\* not open fails the attempt with a plain, retriable error whatever its
\* status.  With compression disabled the client leaves the body as it is.
C19_ResponseDecompressed ==
    /\ (gz.client.UseGzipEncoding /\ GzipAnswered) => ClassifiedDecompressed
    /\ (/\ gz.client.UseGzipEncoding
        /\ Len(gz.sent) >= 1
        /\ gz.resp.kind = "http"
        /\ gz.resp.contentEncoding = "gzip"
        /\ ~IsGzipStream(gz.resp.body)) =>
            /\ gz.err.kind = "gzipReader"
            /\ ~gz.err.permanent
    /\ (~gz.client.UseGzipEncoding /\ GzipAnswered
            /\ gz.resp.status = StatusOK) =>
            gz.ret.resp.body = gz.resp.body

\* A compressed 400 response gave the ApiError of its decompressed envelope.
C19_Witness ==
    /\ gz.client.UseGzipEncoding
    /\ GzipAnswered
    /\ gz.resp.status = 400
    /\ gz.resp.body = GzipOf("envError")
    /\ gz.ret.err.kind = "api"
    /\ gz.ret.err.msg = "msg"
    /\ gz.ret.err.http = 400

----------------------------------------------------------------------------
\* C20: every attempt, the first and each retry, for every method, carries
\* Authorization: Bearer <the configured token>, Content-Type:
\* application/json and Accept: application/json.
C20_HeadersEveryAttempt ==
    \A i \in SentIndexes :
        /\ gz.sent[i].header.Authorization = << "Bearer ", gz.client.ApiToken >>
        /\ gz.sent[i].header.ContentType = "application/json"
        /\ gz.sent[i].header.Accept = "application/json"

\* The second retry of a DELETE made with the second token.
C20_Witness ==
    /\ gz.call.method = "DELETE"
    /\ gz.client.ApiToken = "tokB"
    /\ Len(gz.sent) = 3
    /\ gz.sent[3].header.Authorization = << "Bearer ", "tokB" >>

----------------------------------------------------------------------------
\* C21: for a non-200 response with HTTP status H that is not retriable and
\* whose body is a JSON envelope with status S and error E, the call returns
\* the ApiError {S, E, H} itself, not wrapped as permanent, so its message
\* is "S: E (HTTP H)"; H is the status of the response even when the body
\* names another one.
C21_ApiErrorIdentity ==
    (/\ once.phase = "output"
     /\ once.resp.kind = "http"
     /\ once.resp.status # StatusOK
     /\ ~isRetriable(once.resp.status)
     /\ Unmarshals(once.resp.body)) =>
        /\ once.out.err.permanent
        /\ once.ret.err = [Nil EXCEPT !.kind = "api",
                                      !.status = EnvStatus(once.resp.body),
                                      !.msg = EnvErr(once.resp.body),
                                      !.http = once.resp.status,
                                      !.attempt = 1]
        /\ ErrorString(once.ret.err) =
               << EnvStatus(once.resp.body), ": ", EnvErr(once.resp.body),
                  " (HTTP ", once.resp.status, ")" >>

\* A 400 whose envelope also names an HTTP status of 200 came back as
\* "error: msg (HTTP 400)".
C21_Witness ==
    /\ once.phase = "output"
    /\ once.resp.status = 400
    /\ once.resp.body = "envErrorHttp"
    /\ ErrorString(once.ret.err) = << "error", ": ", "msg", " (HTTP ", 400, ")" >>

----------------------------------------------------------------------------
\* The schedule of the documentation: 2, 4, 8, 16, 32, 64, 64, ...
Schedule(i) ==
    IF InitialInterval * Multiplier ^ (i - 1) < MaxInterval
    THEN InitialInterval * Multiplier ^ (i - 1)
    ELSE MaxInterval

\* C22: the wait requested before the i-th retry of a call is
\* min(2 * 2^(i-1), 64) time units; it never exceeds 64.
C22_BackoffSchedule ==
    timerStarts >= 1 =>
        /\ timerDuration = Schedule(timerStarts)
        /\ timerDuration <= MaxInterval

----------------------------------------------------------------------------
\* C23: the attempts of one call are strictly sequential: an attempt is
\* started only when every earlier attempt of the call has returned and
\* been classified, so a call has at most one attempt in flight, and it has
\* one exactly when its goroutine is inside the operation.
C23_AttemptsSequential ==
    \A i \in ParCalls :
        LET c == par.calls[i]
        IN  /\ c.started - c.classified \in {0, 1}
            /\ c.started - c.classified = 1 <=> c.pc = "inflight"
            /\ c.timerStarts <= c.classified

\* The third attempt of a call is in flight, its first two classified.
C23_Witness ==
    \E i \in ParCalls :
        /\ par.calls[i].pc = "inflight"
        /\ par.calls[i].started = 3
        /\ par.calls[i].classified = 2

----------------------------------------------------------------------------
\* C24: a call that makes k attempts starts the time source exactly k-1
\* times: never before the first attempt, once after every attempt that is
\* followed by another, never after the terminal attempt; and an attempt
\* after the first starts only when the time source has signalled for every
\* wait before it.
C24_OneTimerStartPerRetry ==
    \A i \in ParCalls :
        LET c == par.calls[i]
        IN  /\ c.started = 0 => c.timerStarts = 0
            /\ c.pc = "inflight" =>
                   /\ c.timerStarts = c.started - 1
                   /\ c.signals = c.started - 1
            /\ c.pc = "waiting" =>
                   /\ c.timerStarts = c.started
                   /\ c.signals = c.started - 1
            /\ c.pc = "done" =>
                   /\ c.timerStarts = c.started - 1
                   /\ c.signals = c.started - 1

\* A call has returned after three attempts and two waits.
C24_Witness ==
    \E i \in ParCalls :
        /\ par.calls[i].pc = "done"
        /\ par.calls[i].started = 3
        /\ par.calls[i].timerStarts = 2
        /\ par.calls[i].signals = 2
----------------------------------------------------------------------------
\* C25: two calls running concurrently on the same Client do not interfere:
\* each has its own wait signal, so a call that waits between two attempts
\* has its timer armed or its signal already delivered, whatever the other
\* call does; and each call sends its own body.
C25_NoInterference ==
    \A i \in ParCalls :
        LET c == par.calls[i]
            t == par.timers[TimerOf(par.client, i)]
        IN  /\ c.pc = "waiting" => (t.armed \/ t.pending)
            /\ c.started >= 1 => c.sentBody = c.body

----------------------------------------------------------------------------
\* Vocabulary of the properties of filters.

Marshalled == flt.phase = "output"

\* f is a pointer to a filter: neither the nil interface nor a nil pointer.
NonNil(f) == f.type \in {"Base", "And", "Or"}

OperatorTokens ==
    {"Eq", "NotEq", "In", "NotIn", "Lt", "Lte", "Gt", "Gte", "Glob",
     "NotGlob", "IGlob", "NotIGlob"}

\* The kind of JSON value each kind of Go value is encoded as.
JsonKind(g) ==
    CASE g.t = "int" -> "number"
      [] g.t = "string" -> "string"
      [] g.t = "[]int" -> "array"
      [] g.t = "nil" -> "null"

\* C26: a leaf filter with attribute a, operator o and value v (a scalar, a
\* string, an array or nil) encodes to the 3-element array
\* [a, token(o), encode(v)], where token(o) is a JSON string, one of the
\* twelve operator names, and never a number.
C26_LeafEncoding ==
    (Marshalled /\ flt.filter.type = "Base" /\ flt.filter.value.t # "chan") =>
        /\ ~flt.out.panic
        /\ ~flt.out.err
        /\ flt.out.bytes.t = "array"
        /\ Len(flt.out.bytes.a) = 3
        /\ flt.out.bytes.a[1] = JStr(flt.filter.attr)
        /\ flt.out.bytes.a[2].t = "string"
        /\ flt.out.bytes.a[2].s \in OperatorTokens
        /\ flt.out.bytes.a[2].s = OperatorString(flt.filter.op)
        /\ flt.out.bytes.a[3].t = JsonKind(flt.filter.value)
        /\ flt.out.bytes.a[3] = EncodeValue(flt.filter.value)

\* ["attr","NotIGlob",[1,2,3]] has been produced.
C26_Witness ==
    /\ Marshalled
    /\ flt.filter.type = "Base"
    /\ flt.filter.op = "OpNotIGlob"
    /\ flt.out.bytes =
           JArr(<< JStr("attr"), JStr("NotIGlob"),
                   JArr(<< JNum(1), JNum(2), JNum(3) >>) >>)

----------------------------------------------------------------------------
\* C27: an AndFilter (OrFilter) whose children are all non-nil encodes to
\* the 2-element array ["And" ("Or"), C], where C has one entry per child
\* and its i-th entry is the encoding of the i-th child.
C27_CompoundEncoding ==
    (/\ Marshalled
     /\ IsCompound(flt.filter)
     /\ \A i \in 1 .. Len(flt.filter.filters) : NonNil(flt.filter.filters[i])
     /\ ~flt.out.panic) =>
        /\ ~flt.out.err
        /\ flt.out.bytes.t = "array"
        /\ Len(flt.out.bytes.a) = 2
        /\ flt.out.bytes.a[1] = JStr(flt.filter.type)
        /\ flt.out.bytes.a[2].t = "array"
        /\ Len(flt.out.bytes.a[2].a) = Len(flt.filter.filters)
        /\ \A i \in 1 .. Len(flt.filter.filters) :
               flt.out.bytes.a[2].a[i] = Marshal(flt.filter.filters[i]).bytes

\* An Or of a leaf and an And has been encoded, the leaf first.
C27_Witness ==
    /\ Marshalled
    /\ flt.filter = OrFilter(<< LeafB, AndFilter(<< LeafA >>) >>)
    /\ flt.out.bytes.a[2].a[1] = Marshal(LeafB).bytes
    /\ flt.out.bytes.a[2].a[2].a[1] = JStr("And")

----------------------------------------------------------------------------
\* C28: nil children are skipped: for every compound filter, json.Marshal
\* returns an encoding whose children array has exactly one entry per
\* non-nil child, in order, and no null entry.
C28_NilChildrenSkipped ==
    (Marshalled /\ IsCompound(flt.filter)) =>
        LET kept == SelectSeq(flt.filter.filters, NonNil)
        IN  /\ ~flt.out.panic
            /\ flt.out.bytes.t = "array"
            /\ Len(flt.out.bytes.a[2].a) = Len(kept)
            /\ \A i \in 1 .. Len(kept) :
                   /\ flt.out.bytes.a[2].a[i] # JNull
                   /\ flt.out.bytes.a[2].a[i].a[1] =
                          IF IsCompound(kept[i]) THEN JStr(kept[i].type)
                          ELSE JStr(kept[i].attr)

----------------------------------------------------------------------------
\* C29: an absent top-level filter, be it the nil Filter value or a nil
\* pointer of one of the three variants, serializes to the JSON literal
\* null, with no error.
C29_NilFilterIsNull ==
    (Marshalled /\ ~NonNil(flt.filter)) =>
        /\ flt.out.bytes = JNull
        /\ ~flt.out.err
        /\ ~flt.out.panic

\* json.Marshal of a nil *OrFilter has returned null.
C29_Witness ==
    /\ Marshalled
    /\ flt.filter = NilPointer("nilOr")
    /\ flt.out.bytes = JNull
    /\ ~flt.out.panic

----------------------------------------------------------------------------
RECURSIVE NoNilNodes(_)
\* The tree f has no nil node at any depth.
NoNilNodes(f) ==
    /\ NonNil(f)
    /\ \A i \in 1 .. Len(f.filters) : NoNilNodes(f.filters[i])

RECURSIVE SameShape(_, _)
\* The JSON value j has the shape of the tree f.
SameShape(f, j) ==
    IF f.type = "Base"
    THEN j.t = "array" /\ Len(j.a) = 3
    ELSE /\ j.t = "array"
         /\ Len(j.a) = 2
         /\ j.a[1] = JStr(f.type)
         /\ j.a[2].t = "array"
         /\ Len(j.a[2].a) = Len(f.filters)
         /\ \A i \in 1 .. Len(f.filters) : SameShape(f.filters[i], j.a[2].a[i])

RECURSIVE Depth(_)
Depth(f) ==
    IF f.filters = << >> THEN 1
    ELSE 1 + Depth(f.filters[CHOOSE i \in 1 .. Len(f.filters) :
                       \A k \in 1 .. Len(f.filters) :
                           Depth(f.filters[k]) <= Depth(f.filters[i])])

\* C30: for every filter tree with no nil node, the encoding has the shape
\* of the tree: a 3-element array for a leaf, and for an And/Or node a
\* 2-element array of the tag and an array with one entry per child, each
\* of the shape of that child, at every depth.
C30_ShapePreserved ==
    (Marshalled /\ NoNilNodes(flt.filter) /\ ~flt.out.err) =>
        /\ ~flt.out.panic
        /\ SameShape(flt.filter, flt.out.bytes)

\* A tree of three nested compound filters over a leaf has been encoded.
C30_Witness ==
    /\ Marshalled
    /\ NoNilNodes(flt.filter)
    /\ Depth(flt.filter) = 4
    /\ SameShape(flt.filter, flt.out.bytes)

----------------------------------------------------------------------------
\* The request holding the filter has been marshalled, after the filter by
\* itself.
Embedded == flt.phase = "embedded"

\* The field of type Filter of a request
FilterFieldOf(request) ==
    request[CHOOSE i \in 1 .. Len(request) : request[i].kind = "Filter"]

\* In the text of a JSON object, the member key has the text value as its
\* value: the quoted key follows "{" or ",", then ":", then value, then ","
\* or "}".
HasMember(bytes, key, value) ==
    \E i \in 2 .. Len(bytes) :
        /\ bytes[i - 1] \in {"{", ","}
        /\ i + 4 + Len(value) <= Len(bytes)
        /\ SubSeq(bytes, i, i + 3) = << "\"", key, "\"", ":" >>
        /\ SubSeq(bytes, i + 4, i + 3 + Len(value)) = value
        /\ bytes[i + 4 + Len(value)] \in {",", "}"}

\* C31: when a filter is the value of a field of a request object
\* (delete_by_filter, or filters of a query or a recall request), the text
\* of that field's value is the text json.Marshal gives for the filter by
\* itself.
C31_EmbeddingTransparent ==
    (/\ Embedded
     /\ ~flt.out.panic
     /\ ~flt.out.err
     /\ ~Omitted(FilterFieldOf(flt.request))) =>
        /\ ~flt.emb.panic
        /\ ~flt.emb.err
        /\ HasMember(flt.emb.bytes, FilterFieldOf(flt.request).key,
                     Render(flt.out.bytes))

\* A recall request with top_k 2, an And of two leaves and one query vector
\* has been marshalled: the filter is between two other members.
C31_Witness ==
    /\ Embedded
    /\ flt.request = RecallRequest(0, 2, AndFilter(<< LeafA, LeafB >>), 1)
    /\ flt.out.bytes.t = "array"
    /\ SubSeq(flt.emb.bytes, 1, 10) =
           << "{", "\"", "top_k", "\"", ":", "2", ",", "\"", "filters", "\"" >>
    /\ flt.emb.bytes[Len(flt.emb.bytes)] = "}"
    /\ HasMember(flt.emb.bytes, "filters", Render(flt.out.bytes))
    /\ HasMember(flt.emb.bytes, "queries", << "[", "[", "1", "]", "]" >>)

----------------------------------------------------------------------------
\* The filter has been marshalled a second time.
MarshalledTwice == flt.phase = "again"

----------------------------------------------------------------------------
\* The operation has got past its input.
UpsActed == ups.phase \in {"posting", "done"}

\* Every entry of the request is a document (no nil pointer among them),
\* and one of them has no vector.
EntryWithoutVector(upserts) ==
    /\ \A i \in 1 .. Len(upserts) : ~upserts[i].nil
    /\ \E i \in 1 .. Len(upserts) : Len(upserts[i].vector) = 0

\* json.Marshal has no encoding for the request of the call.
CannotMarshal(call) ==
    IF call.op = "DeleteByFilter"
    THEN call.filter.type = "Base" /\ call.filter.value.t = "chan"
    ELSE /\ \A i \in 1 .. Len(call.upserts) : ~call.upserts[i].nil
         /\ \E i \in 1 .. Len(call.upserts) :
                call.upserts[i].attributes = "chan"

\* do() has not been entered: no request was built, the HTTP client was not
\* invoked and no Timer was started.
NoNetwork == pc = "start" /\ attempts = 0 /\ timerStarts = 0 /\ resp = NoResponse

\* C33: a failure found before sending is returned with zero HTTP attempts:
\* Upsert with an entry that has no vector returns the error "deletion must
\* be performed using Delete ...", and a call whose request cannot be
\* marshalled returns "failed to marshal request", both without the HTTP
\* client being invoked and without any wait.
C33_LocalFailureNoAttempt ==
    /\ (/\ UpsActed
        /\ ups.call.op = "Upsert"
        /\ EntryWithoutVector(ups.call.upserts)) =>
            /\ ups.phase = "done"
            /\ ~ups.panic
            /\ ups.err = DeletionError
            /\ NoNetwork
    /\ (/\ UpsActed
        /\ CannotMarshal(ups.call)
        /\ ~(ups.call.op = "Upsert" /\ EntryWithoutVector(ups.call.upserts))) =>
            /\ ups.phase = "done"
            /\ ~ups.panic
            /\ ups.err = MarshalError
            /\ NoNetwork

\* Upsert of a document with a vector and one without has returned the
\* deletion error, the HTTP client not invoked.
C33_Witness ==
    /\ ups.phase = "done"
    /\ ups.call.op = "Upsert"
    /\ ups.call.upserts =
           << UpsertOf("1", << 1, 1 >>, "none"), UpsertOf("3", << >>, "map") >>
    /\ ups.err = DeletionError
    /\ attempts = 0
    /\ timerStarts = 0

----------------------------------------------------------------------------
\* C34: the result of a call is exactly one of response bytes or an error:
\* in every terminal state either the error is nil and bytes are returned,
\* or the error is non-nil and no response bytes, not even a partially read
\* body, are returned.
C34_BytesOrError ==
    pc = "done" =>
        \/ ret.err = Nil /\ ret.bytes = resp.body
        \/ ret.err # Nil /\ ret.bytes = "nil"

----------------------------------------------------------------------------
\* The terminal states of the specification's state machine, read off the
\* way the loop returned.
TerminalState ==
    CASE stop = "success" -> "Success"
      [] stop = "permanent" -> "PermanentFailure"
      [] stop = "maxTries" -> "ExhaustedFailure"
      [] stop = "elapsed" -> "ElapsedFailure"
      [] OTHER -> "none"

\* The call has not gone beyond the attempts of the model, which only a
\* call with a negative MaxRetries (converted to an unsigned count) can do.
WithinModel ==
    ~(cfg.MaxRetries < 0 /\ ~cfg.DisableRetry /\ attempts = MaxAttempts)

\* Once do() has returned nothing more happens.
TerminalIsFinal ==
    [][pc = "done" =>
           /\ pc' = "done"
           /\ attempts' = attempts
           /\ timerStarts' = timerStarts
           /\ ret' = ret]_vars

----------------------------------------------------------------------------
\* The reference: a fold over the outcomes of the attempts.  Its state is
\* the number of outcomes consumed, where the call stands, what it returns,
\* and the interval of the back-off.
Fold0 ==
    [n |-> 0, state |-> "running", bytes |-> "nil", err |-> Nil,
     cur |-> InitialInterval]

\* One step of the fold as stated: r is what the HTTP client handed to the
\* attempt.  Past the stop nothing is consumed.
FoldStepAsStated(F, r) ==
    LET out == doOnce(r, F.n + 1)
        G == [F EXCEPT !.n = F.n + 1]
    IN  IF F.state # "running" THEN F
        ELSE IF out.err = Nil
        THEN [G EXCEPT !.state = "Success", !.bytes = r.body]
        ELSE IF out.err.permanent
        THEN [G EXCEPT !.state = "PermanentFailure", !.err = Unwrap(out.err)]
        ELSE IF F.n + 1 = maxRetries(cfg) + 1
        THEN [G EXCEPT !.state = "ExhaustedFailure", !.err = out.err]
        ELSE [G EXCEPT !.cur = incrementCurrentInterval(F.cur)]

\* One step of the amended fold: after a retriable failure short of the
\* budget the call also stops when the clock of the back-off, reading e, and
\* the next wait, drawn with the random number j, pass the maximum elapsed
\* time.
FoldStep(F, r, e, j) ==
    LET G == FoldStepAsStated(F, r)
    IN  IF /\ G.state = "running"
           /\ e + getRandomValueFromInterval(F.cur, j) > MaxElapsedTime
        THEN [G EXCEPT !.state = "ElapsedFailure",
                       !.err = doOnce(r, F.n + 1).err]
        ELSE G

\* The state of the fold a state of the call stands for.
FoldOfCall ==
    [n |-> attempts,
     state |-> IF pc = "done" THEN TerminalState ELSE "running",
     bytes |-> IF pc = "done" /\ ret.err = Nil THEN ret.bytes ELSE "nil",
     err |-> IF pc = "done" THEN ret.err ELSE Nil,
     cur |-> currentInterval]

----------------------------------------------------------------------------
\* C37: the retry budget is bounded for every integer MaxRetries: with a
\* negative MaxRetries a call makes no more than the 7 attempts of the
\* default budget, and the limit converted to an unsigned count is never a
\* number of retries beyond the default.
C37_BudgetBounded ==
    (cfg.MaxRetries < 0 /\ ~cfg.DisableRetry) =>
        /\ attempts <= defaultMaxRetries + 1
        /\ ToUint64(maxRetries(cfg)) <= defaultMaxRetries

----------------------------------------------------------------------------
\* C38: no response is leaked: whenever an attempt is over (the next one
\* not yet begun, or the call returned), the underlying body of every
\* response the call obtained is closed, unless that response is the one
\* handed to the caller; also when the body was wrapped in a gzip reader.
C38_NoResponseLeaked ==
    gz.pc \in {"attempting", "waiting", "done"} =>
        \A i \in 1 .. Len(gz.bodies) :
            gz.bodies[i].exists =>
                \/ gz.bodies[i].closed
                \/ /\ gz.bodies[i].handed
                   /\ i = Len(gz.bodies)
                   /\ gz.pc = "done"
                   /\ gz.ret.err = Nil

----------------------------------------------------------------------------
\* C39: serializing a compound filter never fails at run time on a nil
\* child: a child that is a nil *BaseFilter, *AndFilter or *OrFilter held in
\* the Filter interface is skipped like the nil interface, none of them
\* being dereferenced.
C39_NilPointerChildSkipped ==
    (/\ Marshalled
     /\ IsCompound(flt.filter)
     /\ \E i \in 1 .. Len(flt.filter.filters) :
            flt.filter.filters[i] \in NilPointers
     /\ \A i \in 1 .. Len(flt.filter.filters) :
            ~IsCompound(flt.filter.filters[i])) =>
        /\ ~flt.out.panic
        /\ ~flt.out.err
        /\ flt.out.bytes =
               Marshal([flt.filter EXCEPT
                           !.filters = SelectSeq(flt.filter.filters,
                                                 NonNil)]).bytes

====
